---------------------------- MODULE Spec2Model ----------------------------
(***************************************************************************)
(* A model of the geometryCalc application: the geometry engine            *)
(* (calculateBikeGeometry), the warning-threshold classification, and the  *)
(* bike selector's edit handlers.                                          *)
(*                                                                         *)
(* NUMBERS.  The program computes with IEEE doubles.  The model computes   *)
(* with fixed-point integers and three special values:                     *)
(*   lengths            1/LenScale of a drawing unit or of a millimetre,   *)
(*   degree values      1/AngScale of a degree,                            *)
(*   radian values      1/RadScale of a radian (Math.PI is MATH_PI),       *)
(*   unitless values    1/T (cosines, sines, ratios),                      *)
(*   NaN, PosInf, NegInf  the non-finite doubles.                          *)
(* Every product and quotient is rounded to the nearest representable      *)
(* value, so a computed value carries a rounding error of a few quanta     *)
(* where the double carries one of a few ulps.  Signed zero is not         *)
(* modelled.                                                               *)
(***************************************************************************)
EXTENDS Integers, Sequences, FiniteSets, TLC

(***************************************************************************)
(* State.                                                                  *)
(*   bikeA, bikeB          the page's two bikes (bikeB may be NoBike)      *)
(*   thrown                the last handler call ended in an exception     *)
(*   edits                 number of handler calls so far                  *)
(*   geometryA, geometryB  the results the visualization computed for the  *)
(*                         two bikes at its last render                    *)
(*   kneeAt90, ampel       the knee angle handed to the 90 degree traffic  *)
(*                         light and the class it was given                *)
(*   bikesData             the value imported from bikes.json              *)
(*   parsedBikes           what parseBikesData made of it (NotLoaded       *)
(*                         before the call)                                *)
(*   isPedaling            the page's pedal animation is running           *)
(*   ticks                 number of animation timer callbacks so far      *)
(*   elbowShown, elbowClass  the elbow angle handed to the elbow panel and *)
(*                         the class it was given                          *)
(*   measureMode, measurePoints  the visualization's measure tool: on/off  *)
(*                         and the selected points                         *)
(*   lastEvent             the click the measure tool handled last         *)
(***************************************************************************)
VARIABLES bikeA, bikeB, thrown, edits, geometryA, geometryB, kneeAt90, ampel,
          bikesData, parsedBikes, isPedaling, ticks, elbowShown, elbowClass,
          measureMode, measurePoints, lastEvent

vars ==
  << bikeA, bikeB, thrown, edits, geometryA, geometryB, kneeAt90, ampel,
     bikesData, parsedBikes, isPedaling, ticks, elbowShown, elbowClass,
     measureMode, measurePoints, lastEvent >>

(* The variables of the visualization's panels and tools.                   *)
viewVars ==
  << isPedaling, ticks, elbowShown, elbowClass, measureMode, measurePoints, lastEvent >>

(* A click: kind is "point" (on the point id of bike), "svg" (on the        *)
(* drawing, id "background" or "shape"), "toggle" (the measure button) or   *)
(* "none".                                                                  *)
Event(kind, id, bike) == [kind |-> kind, id |-> id, bike |-> bike]

(***************************************************************************)
(* Fixed-point scales (representation, not program constants).             *)
(***************************************************************************)
LenScale == 10 ^ 1
AngScale == 10 ^ 2
RadScale == 10 ^ 4
T        == 10 ^ 4

(* Math.PI in 1/RadScale radians; HalfTurn is 180 degrees in 1/AngScale.   *)
MATH_PI  == 31415 + 1
HalfTurn == 180 * AngScale

(* The non-finite doubles.  PosInf exceeds every finite model value.       *)
PosInf == 2 * 10 ^ 9
NegInf == 0 - PosInf
NaN    == PosInf + 1

IsFiniteNum(a) == a # NaN /\ a # PosInf /\ a # NegInf

(* Their values when the page is first shown.                               *)
InitView ==
  /\ isPedaling = FALSE
  /\ ticks = 0
  /\ elbowShown = NaN
  /\ elbowClass = "none"
  /\ measureMode = FALSE
  /\ measurePoints = << >>
  /\ lastEvent = Event("none", "", "")

Sgn(a) == IF a > 0 THEN 1 ELSE IF a < 0 THEN 0 - 1 ELSE 0
AbsInt(a) == IF a < 0 THEN 0 - a ELSE a

(***************************************************************************)
(* |a| * |b| / |c| as <<quotient, remainder>> without leaving 32 bits:     *)
(* directly when the product fits, bit by bit over b otherwise (from the   *)
(* bit of weight m downwards; q and r are the quotient and remainder of a  *)
(* times the bits of b already seen).                                      *)
(***************************************************************************)
RECURSIVE MulDivBits(_, _, _, _, _, _)
MulDivBits(a, b, c, m, q, r) ==
  IF m = 0 \/ q < 0 \/ r < 0 THEN << q, r >>
  ELSE MulDivBits(a, b, c, m \div 2,
                  2 * q + ((b \div m) % 2) * (a \div c)
                        + ((2 * r + ((b \div m) % 2) * (a % c)) \div c),
                  (2 * r + ((b \div m) % 2) * (a % c)) % c)

RECURSIVE TopBit(_, _)
TopBit(b, m) == IF m >= 2 ^ 30 \/ 2 * m > b THEN m ELSE TopBit(b, 2 * m)

MulDivQR(a, b, c) ==
  IF a <= 46340 /\ b <= 46340
  THEN << (a * b) \div c, (a * b) % c >>
  ELSE MulDivBits(IF a < b THEN b ELSE a, IF a < b THEN a ELSE b, c,
                  TopBit(IF a < b THEN a ELSE b, 1), 0, 0)

(* a * b / c rounded to nearest, half away from zero; c # 0.               *)
RoundMulDiv(a, b, c) ==
  LET qr == MulDivQR(AbsInt(a), AbsInt(b), AbsInt(c))
      m  == IF 2 * qr[2] >= AbsInt(c) THEN qr[1] + 1 ELSE qr[1]
  IN  Sgn(a) * Sgn(b) * Sgn(c) * m

(***************************************************************************)
(* IEEE arithmetic on model numbers.                                       *)
(***************************************************************************)
Neg(a) ==
  IF a = NaN THEN NaN
  ELSE IF a = PosInf THEN NegInf
  ELSE IF a = NegInf THEN PosInf
  ELSE 0 - a

Add(a, b) ==
  IF a = NaN \/ b = NaN THEN NaN
  ELSE IF a = PosInf THEN (IF b = NegInf THEN NaN ELSE PosInf)
  ELSE IF a = NegInf THEN (IF b = PosInf THEN NaN ELSE NegInf)
  ELSE IF b = PosInf \/ b = NegInf THEN b
  ELSE a + b

Sub(a, b) == Add(a, Neg(b))

(* a * b where the product of the two scales is `scale` times the result's. *)
Mul(a, b, scale) ==
  IF a = NaN \/ b = NaN THEN NaN
  ELSE IF ~IsFiniteNum(a) \/ ~IsFiniteNum(b)
       THEN (IF a = 0 \/ b = 0 THEN NaN
             ELSE IF Sgn(a) * Sgn(b) > 0 THEN PosInf ELSE NegInf)
  ELSE RoundMulDiv(a, b, scale)

(* a / b where the result's scale is `scale` times the quotient of theirs.  *)
Div(a, b, scale) ==
  IF a = NaN \/ b = NaN THEN NaN
  ELSE IF ~IsFiniteNum(a)
       THEN (IF ~IsFiniteNum(b) THEN NaN
             ELSE IF Sgn(a) * (IF b < 0 THEN 0 - 1 ELSE 1) > 0 THEN PosInf ELSE NegInf)
  ELSE IF ~IsFiniteNum(b) THEN 0
  ELSE IF b = 0
       THEN (IF a = 0 THEN NaN ELSE IF a > 0 THEN PosInf ELSE NegInf)
  ELSE RoundMulDiv(a, scale, b)

(* a * n / d for a literal factor n / d (0.8 is 8 / 10).                    *)
Times(a, n, d) == Mul(a, n, d)

(* Comparisons: false as soon as one side is NaN.                           *)
Gt(a, b) == a # NaN /\ b # NaN /\ a > b
Lt(a, b) == a # NaN /\ b # NaN /\ a < b
Ge(a, b) == a # NaN /\ b # NaN /\ a >= b
Le(a, b) == a # NaN /\ b # NaN /\ a <= b

(* Math.abs, Math.max, Math.min, Math.sign.                                 *)
MathAbs(a) ==
  IF a = NaN THEN NaN ELSE IF a = NegInf THEN PosInf ELSE IF a < 0 THEN 0 - a ELSE a
MathMax(a, b) == IF a = NaN \/ b = NaN THEN NaN ELSE IF a >= b THEN a ELSE b
MathMin(a, b) == IF a = NaN \/ b = NaN THEN NaN ELSE IF a <= b THEN a ELSE b
MathSign(a) == IF a = NaN THEN NaN ELSE Sgn(a)

(* Math.sqrt of a squared length: nearest integer root.                     *)
RECURSIVE IntSqrt(_, _, _)
IntSqrt(n, lo, hi) ==
  IF lo >= hi THEN lo
  ELSE IF ((lo + hi + 1) \div 2) * ((lo + hi + 1) \div 2) <= n
  THEN IntSqrt(n, (lo + hi + 1) \div 2, hi)
  ELSE IntSqrt(n, lo, (lo + hi + 1) \div 2 - 1)

MathSqrt(a) ==
  IF a = NaN \/ a = NegInf THEN NaN
  ELSE IF a = PosInf THEN PosInf
  ELSE IF a < 0 THEN NaN
  ELSE LET s == IntSqrt(a, 0, 46340)
       IN  IF a - s * s > s THEN s + 1 ELSE s

(* a * a of a length, in squared length quanta.                             *)
Sq(a) == IF a = NaN THEN NaN ELSE IF ~IsFiniteNum(a) THEN PosInf ELSE a * a

(***************************************************************************)
(* Trigonometry.  SinTable[d + 1] is T * sin(d degrees); angles between    *)
(* whole degrees are interpolated linearly.                                *)
(***************************************************************************)
SinTable ==
  << 0, 175, 349, 523, 698, 872, 1045, 1219, 1392, 1564, 1736, 1908, 2079,
     2250, 2419, 2588, 2756, 2924, 3090, 3256, 3420, 3584, 3746, 3907, 4067, 4226,
     4384, 4540, 4695, 4848, 5000, 5150, 5299, 5446, 5592, 5736, 5878, 6018, 6157,
     6293, 6428, 6561, 6691, 6820, 6947, 7071, 7193, 7314, 7431, 7547, 7660, 7771,
     7880, 7986, 8090, 8192, 8290, 8387, 8480, 8572, 8660, 8746, 8829, 8910, 8988,
     9063, 9135, 9205, 9272, 9336, 9397, 9455, 9511, 9563, 9613, 9659, 9703, 9744,
     9781, 9816, 9848, 9877, 9903, 9925, 9945, 9962, 9976, 9986, 9994, 9998, 10000 >>

(* The table value at d whole degrees plus f/AngScale of a degree.          *)
Interpolate(table, d, f) ==
  IF f = 0 THEN table[d + 1]
  ELSE table[d + 1] + RoundMulDiv(table[d + 2] - table[d + 1], f, AngScale)

(* sin of c/AngScale degrees, 0 <= c <= 90 degrees.                         *)
SinQuadrant(c) == Interpolate(SinTable, c \div AngScale, c % AngScale)

(* An angle m of [0, 360) degrees folded into the first quadrant (q is 90   *)
(* degrees), and the sign of its sine.                                      *)
QuadrantAngle(m, q) ==
  IF m <= q THEN m
  ELSE IF m <= 2 * q THEN 2 * q - m
  ELSE IF m <= 3 * q THEN m - 2 * q
  ELSE 4 * q - m

QuadrantSign(m, q) == IF m <= 2 * q THEN 1 ELSE 0 - 1

(* sin and cos of an angle given in 1/AngScale degrees.                     *)
SinDeg(c) ==
  QuadrantSign(c % (2 * HalfTurn), HalfTurn \div 2)
  * SinQuadrant(QuadrantAngle(c % (2 * HalfTurn), HalfTurn \div 2))

CosDeg(c) == SinDeg(c + HalfTurn \div 2)

(* The angle of r/RadScale radians in 1/AngScale degrees, and back.         *)
RadToDeg(r) == RoundMulDiv(r, HalfTurn, MATH_PI)
DegToRad(c) == RoundMulDiv(c, MATH_PI, HalfTurn)

(* Math.sin, Math.cos of a radian value: NaN for a non-finite argument.     *)
MathSin(r) == IF ~IsFiniteNum(r) THEN NaN ELSE SinDeg(RadToDeg(r))
MathCos(r) == IF ~IsFiniteNum(r) THEN NaN ELSE CosDeg(RadToDeg(r))

(* The angle in [0, 90] degrees whose tangent is ay / ax (ax, ay >= 0, not  *)
(* both 0) is the largest c with sin(c) * ax <= cos(c) * ay.  AtanSearch    *)
(* finds it one decimal digit after the other: at each step the largest    *)
(* lo + k * step that still satisfies the condition, given that lo does.    *)
RECURSIVE AtanSearch(_, _, _, _)
AtanSearch(ay, ax, lo, step) ==
  IF step = 0 THEN lo
  ELSE AtanSearch(ay, ax,
         lo + step * Cardinality({k \in 1 .. 9 :
                /\ lo + k * step <= HalfTurn \div 2
                /\ SinDeg(lo + k * step) * ax <= CosDeg(lo + k * step) * ay}),
         step \div 10)

(* The size of one leg of the triangle atan2 measures: an infinite leg     *)
(* dwarfs a finite one, two infinite legs are equal.                        *)
AtanLeg(v, other) ==
  IF IsFiniteNum(v) /\ ~IsFiniteNum(other) THEN 0
  ELSE IF IsFiniteNum(v) THEN AbsInt(v)
  ELSE 1

(* The first-quadrant angle c moved to the quadrant of (x, y).              *)
AtanQuadrant(y, x, c) ==
  IF x >= 0 /\ y >= 0 THEN c
  ELSE IF x < 0 /\ y >= 0 THEN MATH_PI - c
  ELSE IF x < 0 THEN c - MATH_PI
  ELSE 0 - c

(* Math.atan2(y, x) in 1/RadScale radians, in (-pi, pi].                    *)
MathAtan2(y, x) ==
  IF y = NaN \/ x = NaN THEN NaN
  ELSE IF x = 0 /\ y = 0 THEN 0
  ELSE AtanQuadrant(y, x,
         DegToRad(AtanSearch(AtanLeg(y, x), AtanLeg(x, y), 0, 10 * AngScale)))

(* The angle in [0, 90] degrees whose cosine is u / T (0 <= u <= T) is the  *)
(* smallest c with cos(c) <= u, that is the largest c all angles below      *)
(* which have a cosine above u.  AcosSearch finds it one decimal digit      *)
(* after the other.                                                         *)
RECURSIVE AcosSearch(_, _, _)
AcosSearch(u, lo, step) ==
  IF step = 0 THEN lo
  ELSE AcosSearch(u,
         lo + step * Cardinality({k \in 1 .. 9 :
                /\ lo + k * step <= HalfTurn \div 2
                /\ CosDeg(lo + k * step - 1) > u}),
         step \div 10)

(* Math.acos(u) in 1/RadScale radians, in [0, pi]: NaN outside [-1, 1].     *)
MathAcos(u) ==
  IF ~IsFiniteNum(u) \/ u > T \/ u < 0 - T THEN NaN
  ELSE IF u >= 0 THEN DegToRad(AcosSearch(u, 0, 10 * AngScale))
  ELSE MATH_PI - DegToRad(AcosSearch(0 - u, 0, 10 * AngScale))

(***************************************************************************)
(* Input numbers.  A value a user or a catalog supplies is a whole number  *)
(* of millimetres or degrees, or a non-finite double.                      *)
(***************************************************************************)
Mm(v) == Mul(v, LenScale, 1)
Dg(v) == Mul(v, AngScale, 1)

Hundred  == 10 ^ 2
Thousand == 10 ^ 3

(***************************************************************************)
(* Constants of the geometry engine.  SCALE is in tenths, the leg ratios   *)
(* in hundredths, the body ratios in thousandths, HEADSET_BEARING_DIAMETER *)
(* in 1/LenScale mm, the others in mm or degrees.                          *)
(***************************************************************************)
SCALE == 8
DEFAULT_FRONT_CENTER == 600
DEFAULT_CHAINSTAY_LENGTH == 410
DEFAULT_HEADTUBE_LENGTH == 0
HEADSET_BEARING_DIAMETER == 318
HANDLEBAR_ARC_STEPS == 12
SADDLE_LENGTH == 255
SADDLE_SETBACK == 40
PEDAL_WIDTH == 50
UPPER_LEG_RATIO == 56
LOWER_LEG_RATIO == 44
HEAD_RATIO == 120
NECK_RATIO == 55
UPPER_ARM_RATIO == 186
LOWER_ARM_RATIO == 146
CLEAT_SETBACK == 130
FOOT_ANGLE_DEFAULT == 10
HIP_JOINT_RATIO == 95
STRETCH_FOOT_GAIN == 30
NECK_ANGLE == 60
ARC_MIN_DROP_INV == 1000

(* Scaled with mm drawn one to one.                                         *)
ScaledOneToOne(x) == Times(x, 10, 10)

(* x * SCALE and x / SCALE.                                                 *)
Scaled(x)   == Times(x, SCALE, 10)
Unscaled(x) == Times(x, 10, SCALE)

Pt(x, y) == [x |-> x, y |-> y]

(* function toRadians(degrees)                                              *)
toRadians(degrees) == Mul(degrees, MATH_PI, HalfTurn)

(* calculateHorizontalDistance without the Math.max(0, ...) guard.          *)
HorizontalDistanceUnguarded(hypotenuse, verticalOffset) ==
  MathSqrt(Sub(Sq(hypotenuse), Sq(verticalOffset)))

(* calculateHorizontalDistance with the squares added.                      *)
HorizontalDistanceOfSum(hypotenuse, verticalOffset) ==
  MathSqrt(MathMax(0, Add(Sq(hypotenuse), Sq(verticalOffset))))

(* function calculateHorizontalDistance(hypotenuse, verticalOffset)         *)
calculateHorizontalDistance(hypotenuse, verticalOffset) ==
  MathSqrt(MathMax(0, Sub(Sq(hypotenuse), Sq(verticalOffset))))

(* Math.sqrt(dx * dx + dy * dy)                                             *)
Hypot(dx, dy) == MathSqrt(Add(Sq(dx), Sq(dy)))

(* SolveJoint with the arguments of Math.atan2 exchanged.                   *)
SolveJointSwappedAtan(origin, target, b, c) ==
  LET dx    == Sub(target.x, origin.x)
      dy    == Sub(target.y, origin.y)
      dist  == Hypot(dx, dy)
      total == Add(b, c)
  IN  IF Gt(dist, total)
      THEN LET ratio == Div(b, total, T)
           IN  Pt(Add(origin.x, Mul(dx, ratio, T)),
                  Add(origin.y, Mul(dy, ratio, T)))
      ELSE IF Lt(dist, MathAbs(Sub(b, c)))
      THEN Pt(Times(Add(origin.x, target.x), 1, 2),
              Times(Add(origin.y, target.y), 1, 2))
      ELSE LET a        == dist
               cosAlpha == Div(Sub(Add(Sq(a), Sq(b)), Sq(c)),
                               Mul(Times(a, 2, 1), b, 1), T)
               alpha    == MathAcos(MathMax(0 - T, MathMin(T, cosAlpha)))
               base     == MathAtan2(dx, dy)
               dir      == Add(base, alpha)
           IN  Pt(Add(origin.x, Mul(b, MathCos(dir), T)),
                  Add(origin.y, Mul(b, MathSin(dir), T)))

(* SolveJoint with c * c added in the law of cosines.                       *)
SolveJointSumOfSquares(origin, target, b, c) ==
  LET dx    == Sub(target.x, origin.x)
      dy    == Sub(target.y, origin.y)
      dist  == Hypot(dx, dy)
      total == Add(b, c)
  IN  IF Gt(dist, total)
      THEN LET ratio == Div(b, total, T)
           IN  Pt(Add(origin.x, Mul(dx, ratio, T)),
                  Add(origin.y, Mul(dy, ratio, T)))
      ELSE IF Lt(dist, MathAbs(Sub(b, c)))
      THEN Pt(Times(Add(origin.x, target.x), 1, 2),
              Times(Add(origin.y, target.y), 1, 2))
      ELSE LET a        == dist
               cosAlpha == Div(Add(Add(Sq(a), Sq(b)), Sq(c)),
                               Mul(Times(a, 2, 1), b, 1), T)
               alpha    == MathAcos(MathMax(0 - T, MathMin(T, cosAlpha)))
               base     == MathAtan2(dy, dx)
               dir      == Add(base, alpha)
           IN  Pt(Add(origin.x, Mul(b, MathCos(dir), T)),
                  Add(origin.y, Mul(b, MathSin(dir), T)))

(* SolveJoint without the fallback for a target that is too close.          *)
SolveJointNoMidpoint(origin, target, b, c) ==
  LET dx    == Sub(target.x, origin.x)
      dy    == Sub(target.y, origin.y)
      dist  == Hypot(dx, dy)
      total == Add(b, c)
  IN  IF Gt(dist, total)
      THEN LET ratio == Div(b, total, T)
           IN  Pt(Add(origin.x, Mul(dx, ratio, T)),
                  Add(origin.y, Mul(dy, ratio, T)))
      ELSE LET a        == dist
               cosAlpha == Div(Sub(Add(Sq(a), Sq(b)), Sq(c)),
                               Mul(Times(a, 2, 1), b, 1), T)
               alpha    == MathAcos(MathMax(0 - T, MathMin(T, cosAlpha)))
               base     == MathAtan2(dy, dx)
               dir      == Add(base, alpha)
           IN  Pt(Add(origin.x, Mul(b, MathCos(dir), T)),
                  Add(origin.y, Mul(b, MathSin(dir), T)))

(***************************************************************************)
(* The two-link inverse kinematics the engine uses for the leg (from the   *)
(* foot towards the hip, b the lower leg) and for the arm (from the        *)
(* shoulder towards the hand, b the upper arm): the joint between a link   *)
(* of length b starting at `origin` and a link of length c ending at       *)
(* `target`.                                                               *)
(***************************************************************************)
SolveJoint(origin, target, b, c) ==
  LET dx    == Sub(target.x, origin.x)
      dy    == Sub(target.y, origin.y)
      dist  == Hypot(dx, dy)
      total == Add(b, c)
  IN  IF Gt(dist, total)
      THEN LET ratio == Div(b, total, T)
           IN  Pt(Add(origin.x, Mul(dx, ratio, T)),
                  Add(origin.y, Mul(dy, ratio, T)))
      ELSE IF Lt(dist, MathAbs(Sub(b, c)))
      THEN Pt(Times(Add(origin.x, target.x), 1, 2),
              Times(Add(origin.y, target.y), 1, 2))
      ELSE LET a        == dist
               cosAlpha == Div(Sub(Add(Sq(a), Sq(b)), Sq(c)),
                               Mul(Times(a, 2, 1), b, 1), T)
               alpha    == MathAcos(MathMax(0 - T, MathMin(T, cosAlpha)))
               base     == MathAtan2(dy, dx)
               dir      == Add(base, alpha)
           IN  Pt(Add(origin.x, Mul(b, MathCos(dir), T)),
                  Add(origin.y, Mul(b, MathSin(dir), T)))

(* JointAngle without the fold: |atan2 - atan2| * 180 / PI, up to 360.      *)
JointAngleUnreflected(joint, p, q) ==
  MathAbs(Mul(Sub(MathAtan2(Sub(q.y, joint.y), Sub(q.x, joint.x)),
                  MathAtan2(Sub(p.y, joint.y), Sub(p.x, joint.x))),
              HalfTurn, MATH_PI))

(* The interior angle at `joint` between the rays to p and to q, in         *)
(* 1/AngScale degrees: |atan2 - atan2| * 180 / PI, folded into [0, 180].    *)
JointAngle(joint, p, q) ==
  LET angleToP == MathAtan2(Sub(p.y, joint.y), Sub(p.x, joint.x))
      angleToQ == MathAtan2(Sub(q.y, joint.y), Sub(q.x, joint.x))
      deg      == MathAbs(Mul(Sub(angleToQ, angleToP), HalfTurn, MATH_PI))
  IN  IF Gt(deg, HalfTurn) THEN Sub(2 * HalfTurn, deg) ELSE deg

(* FOOT_ANGLE_DEFAULT * (1 + Math.sin(pedalAngleRad)) / 2, in degrees.      *)
BaseDynamicFootAngle(pedalAngleRad) ==
  Times(Mul(Dg(FOOT_ANGLE_DEFAULT), Add(T, MathSin(pedalAngleRad)), T), 1, 2)

(* The foot contact point: the cleat bottom moved back by CLEAT_SETBACK     *)
(* along the foot angle.                                                    *)
FootContact(cleatBottom, footAngleRad) ==
  LET cleatSetback == Scaled(Mm(CLEAT_SETBACK))
  IN  Pt(Sub(cleatBottom.x, Mul(cleatSetback, MathCos(footAngleRad), T)),
         Sub(cleatBottom.y, Mul(cleatSetback, MathSin(footAngleRad), T)))

(* The hip joint: hipJointOffset from the seat along the torso direction.   *)
HipJoint(seatPos, hipJointOffsetScaled, torsoAngleRad) ==
  Pt(Add(seatPos.x, Mul(hipJointOffsetScaled, MathCos(torsoAngleRad), T)),
     Sub(seatPos.y, Mul(hipJointOffsetScaled, MathSin(torsoAngleRad), T)))

(* Leg lengths from the anatomical inseam (inseam plus hip joint offset).   *)
AnatomicalInseam(riderInseam, hipJointOffsetScaled) ==
  Add(Mm(riderInseam), Unscaled(hipJointOffsetScaled))
LowerLeg(inseamLen) == Scaled(Times(inseamLen, LOWER_LEG_RATIO, Hundred))
UpperLeg(inseamLen) == Scaled(Times(inseamLen, UPPER_LEG_RATIO, Hundred))

(* A point at distance len from p in direction rad.                         *)
Polar(p, len, rad) ==
  Pt(Add(p.x, Mul(MathCos(rad), len, T)), Add(p.y, Mul(MathSin(rad), len, T)))

(* The foot contact point for a pedal axle at pedalPos.                     *)
FootBelow(pedalPos, cleatDropScaled, footAngleRad) ==
  FootContact(Pt(pedalPos.x, Sub(pedalPos.y, cleatDropScaled)), footAngleRad)

(* The knee angle of a leg from footPos to hipJointPos.                     *)
KneeAngleOf(footPos, hipJointPos, lowerLegLength, upperLegLength) ==
  JointAngle(SolveJoint(footPos, hipJointPos, lowerLegLength, upperLegLength),
             footPos, hipJointPos)

(* function calculateKneeAngleAtPedalAngle(...): the knee angle, in         *)
(* 1/AngScale degrees, the rider would have at pedal angle pedalAngleDeg.   *)
calculateKneeAngleAtPedalAngle(pedalAngleDeg, crankLength, seatPos, bbPos, riderInseam, cleatDrop, hipJointOffsetScaled, torsoAngleRad) ==
  KneeAngleOf(
    FootBelow(Polar(bbPos, Scaled(Mm(crankLength)), toRadians(Dg(pedalAngleDeg))),
              Scaled(Mm(cleatDrop)),
              toRadians(BaseDynamicFootAngle(toRadians(Dg(pedalAngleDeg))))),
    HipJoint(seatPos, hipJointOffsetScaled, torsoAngleRad),
    LowerLeg(AnatomicalInseam(riderInseam, hipJointOffsetScaled)),
    UpperLeg(AnatomicalInseam(riderInseam, hipJointOffsetScaled)))

(***************************************************************************)
(* function createHandlebarArc(points, segments, handlebarDrop): adds the  *)
(* points handlebarArc0 .. handlebarArc<HANDLEBAR_ARC_STEPS> and the       *)
(* segments joining them, unless the drop is (nearly) zero.                *)
(***************************************************************************)
ArcIds ==
  << "handlebarArc0", "handlebarArc1", "handlebarArc2", "handlebarArc3",
     "handlebarArc4", "handlebarArc5", "handlebarArc6", "handlebarArc7",
     "handlebarArc8", "handlebarArc9", "handlebarArc10", "handlebarArc11",
     "handlebarArc12" >>

ArcId(i) == ArcIds[i + 1]

Seg(from, to) == [from |-> from, to |-> to]

(* The arc segments without the one from the handlebar centre.              *)
ArcSegmentsUnjoined ==
  [i \in 1..HANDLEBAR_ARC_STEPS |-> Seg(ArcId(i - 1), ArcId(i))]

(* The arc segments with the joining loop running one index too far.        *)
ArcSegmentsPastEnd ==
  << Seg("handlebarCenter", ArcId(0)) >>
  \o [i \in 1..HANDLEBAR_ARC_STEPS |-> Seg(ArcId(i - 1), ArcId(i))]
  \o << Seg(ArcId(HANDLEBAR_ARC_STEPS), "handlebarArc13") >>

(* The segments of the drop arc: handlebar centre to the first arc point,   *)
(* then each arc point to the next.                                         *)
ArcSegments ==
  << Seg("handlebarCenter", ArcId(0)) >>
  \o [i \in 1..HANDLEBAR_ARC_STEPS |-> Seg(ArcId(i - 1), ArcId(i))]

createHandlebarArc(points, segments, handlebarDrop) ==
  LET dropScaled == Scaled(Mm(handlebarDrop))
  IN  IF Lt(Times(MathAbs(dropScaled), ARC_MIN_DROP_INV, 1), LenScale)
      THEN [points |-> points, segments |-> segments]
      ELSE
        LET centerX    == points["handlebarCenter"].x
            centerY    == points["handlebarCenter"].y
            radius     == Times(MathAbs(dropScaled), 1, 2)
            arcCenterY == Add(centerY, Mul(MathSign(dropScaled), radius, 1))
            angle(i)   == Add(Times(Neg(MATH_PI), 1, 2),
                              Mul(Div(i, HANDLEBAR_ARC_STEPS, T), MATH_PI, T))
            arcPoint(i) == Pt(Add(centerX, Mul(radius, MathCos(angle(i)), T)),
                              Add(arcCenterY, Mul(radius, MathSin(angle(i)), T)))
            arcPoints  == [id \in {ArcId(i) : i \in 0..HANDLEBAR_ARC_STEPS} |->
                             arcPoint(CHOOSE i \in 0..HANDLEBAR_ARC_STEPS : ArcId(i) = id)]
        IN  [points   |-> points @@ arcPoints,
             segments |-> segments \o ArcSegments]

(* OrDefault that ignores the supplied field.                               *)
AlwaysDefault(rec, field, dflt) == dflt

(* OrDefault that reads a missing field as 0.                               *)
MissingIsZero(rec, field, dflt) == IF field \in DOMAIN rec THEN rec[field] ELSE 0

(* `field` of rec, or dflt when the record has no such field.               *)
OrDefault(rec, field, dflt) == IF field \in DOMAIN rec THEN rec[field] ELSE dflt

(* HandPointId for hands that never leave the handlebar centre.             *)
HandAlwaysAtCenter(cockpit, points) == "handlebarCenter"

(* The id of the point the hand holds: the end of the drop arc in the       *)
(* 'drops' position when the arc exists, the handlebar centre otherwise.    *)
HandPointId(cockpit, points) ==
  IF cockpit.handPosition = "drops" /\ "handlebarDropEnd" \in DOMAIN points
  THEN "handlebarDropEnd"
  ELSE "handlebarCenter"

(* The two pedal axles, half a turn apart on the crank circle.              *)
PedalRight(bb, crankLength, pedalAngleRad) == Polar(bb, crankLength, pedalAngleRad)

(* PedalLeft a quarter turn from the right pedal instead of half a turn.    *)
PedalLeftQuarterTurn(bb, crankLength, pedalAngleRad) ==
  Polar(bb, crankLength, Add(pedalAngleRad, Times(MATH_PI, 1, 2)))

PedalLeft(bb, crankLength, pedalAngleRad) ==
  Polar(bb, crankLength, Add(pedalAngleRad, MATH_PI))

(* FootAngle with the stretch term added whatever the stretch.              *)
FootAngleAlwaysStretched(pedalAngleRad, stretch) ==
  Add(BaseDynamicFootAngle(pedalAngleRad), Mul(Sub(stretch, T), Dg(STRETCH_FOOT_GAIN), T))

(* The foot angle of the drawn leg, in degrees: steeper when the pedal is   *)
(* further from the seat than the leg is long.                              *)
FootAngle(pedalAngleRad, stretch) ==
  LET base == BaseDynamicFootAngle(pedalAngleRad)
  IN  IF Gt(stretch, T)
      THEN Add(base, Mul(Sub(stretch, T), Dg(STRETCH_FOOT_GAIN), T))
      ELSE base

FrameSegments ==
  << Seg("bb", "headTubeTop"), Seg("headTubeTop", "headTubeBottom"),
     Seg("headTubeBottom", "frontWheel"), Seg("bb", "seatTubeTop"),
     Seg("seatTubeTop", "rearWheel"), Seg("bb", "rearWheel"),
     Seg("seatTubeTop", "headTubeTop"),
     Seg("headTubeTop", "spacerUp"), Seg("spacerUp", "stemFront"),
     Seg("stemFront", "handlebarCenter"),
     Seg("seatTubeTop", "seatPostTop"), Seg("saddleLenFwd", "saddleLenAft"),
     Seg("bb", "pedalRight"), Seg("bb", "pedalLeft"),
     Seg("pedalRightTop", "pedalRightBottom"),
     Seg("pedalLeftTop", "pedalLeftBottom") >>

RiderSegments(handId) ==
  << Seg("cleatTop", "cleatBottom"), Seg("cleatBottom", "footContact"),
     Seg("footContact", "kneeNew"), Seg("kneeNew", "hipJoint"),
     Seg("hip", "shoulder"), Seg("shoulder", "neckTop"),
     Seg("shoulder", "elbow"), Seg("elbow", handId) >>

(***************************************************************************)
(* export function calculateBikeGeometry(bike, alignmentMode).             *)
(* Points are in drawing units (mm * SCALE), origin at the bottom bracket, *)
(* y growing downwards; angles of the result are in degrees, the saddle    *)
(* to handlebar drop and the knee to pedal distance in mm.                 *)
(*                                                                         *)
(* The function fills its local `points` and `segments` section by         *)
(* section; each operator below is one section, taking the points so far   *)
(* and returning them with the section's points added.                     *)
(***************************************************************************)
(* A point at distance len from p in direction rad, y upwards.              *)
Upwards(p, len, rad) ==
  Pt(Add(p.x, Mul(len, MathCos(rad), T)), Sub(p.y, Mul(len, MathSin(rad), T)))

(* A point at distance len from p against direction rad.                    *)
Backwards(p, len, rad) ==
  Pt(Sub(p.x, Mul(len, MathCos(rad), T)), Sub(p.y, Mul(len, MathSin(rad), T)))

Wheel(hypotenuse, wheelY, side) ==
  Pt(Mul(side, MathAbs(calculateHorizontalDistance(hypotenuse, wheelY)), 1), wheelY)

(* 1. frame, 2. wheels *)
FramePoints(geometry) ==
  LET headTubeTop == Pt(Scaled(Mm(geometry.reach)), Scaled(Neg(Mm(geometry.stack))))
      wheelY      == Scaled(Neg(Mm(geometry.bbDrop)))
  IN  [bb |-> Pt(0, 0),
       headTubeTop |-> headTubeTop,
       headTubeBottom |->
         Polar(headTubeTop,
               Scaled(Mm(OrDefault(geometry, "headTubeLength", DEFAULT_HEADTUBE_LENGTH))),
               toRadians(Dg(geometry.headTubeAngle))),
       seatTubeTop |->
         Backwards(Pt(0, 0), Scaled(Mm(geometry.seatTubeLength)),
                   toRadians(Dg(geometry.seatTubeAngle))),
       frontWheel |->
         Wheel(Scaled(Mm(OrDefault(geometry, "frontCenter", DEFAULT_FRONT_CENTER))),
               wheelY, 1),
       rearWheel |->
         Wheel(Scaled(Mm(OrDefault(geometry, "chainstayLength", DEFAULT_CHAINSTAY_LENGTH))),
               wheelY, 0 - 1)]

(* 3. cockpit *)
StemFront(spacerUp, stemAngleTotal, stemLengthScaled) ==
  Pt(Add(spacerUp.x, Mul(MathSin(stemAngleTotal), stemLengthScaled, T)),
     Add(spacerUp.y, Mul(Neg(MathCos(stemAngleTotal)), stemLengthScaled, T)))

HandlebarPoints(spacerUp, stemFront, handlebarReachScaled) ==
  [spacerUp |-> spacerUp, stemFront |-> stemFront,
   handlebarCenter |-> Pt(Add(stemFront.x, handlebarReachScaled), stemFront.y)]

StemPoints(spacerUp, stemAngleTotal, stemLengthScaled, handlebarReachScaled) ==
  HandlebarPoints(spacerUp, StemFront(spacerUp, stemAngleTotal, stemLengthScaled),
                  handlebarReachScaled)

CockpitPoints(geometry, cockpit, points) ==
  points @@
  StemPoints(
    Backwards(points["headTubeTop"],
              Scaled(Add(Add(Mm(cockpit.spacerHeight), Mm(cockpit.headsetCap)),
                         Times(HEADSET_BEARING_DIAMETER, 1, 2))),
              toRadians(Dg(geometry.headTubeAngle))),
    Sub(toRadians(Dg(geometry.headTubeAngle)), toRadians(Dg(cockpit.stemAngle))),
    Scaled(Mm(cockpit.stemLength)),
    Scaled(Mm(cockpit.handlebarReach)))

(* The drop arc and its end point, handlebarDropEnd.                        *)
WithDropEnd(points) ==
  IF ArcId(HANDLEBAR_ARC_STEPS) \in DOMAIN points
  THEN points @@ ("handlebarDropEnd" :> points[ArcId(HANDLEBAR_ARC_STEPS)])
  ELSE points

DropArc(arc) == [points |-> WithDropEnd(arc.points), segments |-> arc.segments]

(* 4. saddle and seat post *)
SaddleOn(seatPostTop, saddleSetback, saddleLength) ==
  [seatPostTop  |-> seatPostTop,
   saddleLenFwd |-> Pt(Sub(Add(seatPostTop.x, Times(saddleLength, 1, 2)), saddleSetback),
                       seatPostTop.y),
   saddleLenAft |-> Pt(Sub(Sub(Add(seatPostTop.x, Times(saddleLength, 1, 2)), saddleSetback),
                           saddleLength),
                       seatPostTop.y),
   saddleTop    |-> Pt(Sub(seatPostTop.x, saddleSetback), seatPostTop.y)]

SaddlePoints(geometry, cockpit, points) ==
  points @@
  SaddleOn(Backwards(points["seatTubeTop"], Scaled(Mm(cockpit.seatPostLength)),
                     toRadians(Dg(geometry.seatTubeAngle))),
           Scaled(Mm(SADDLE_SETBACK)), Scaled(Mm(SADDLE_LENGTH)))

(* 5. crank and pedals *)
PedalEnds(pedalRight, pedalLeft, pedalHalfWidth) ==
  [pedalRight |-> pedalRight, pedalLeft |-> pedalLeft,
   pedalRightTop    |-> Pt(Sub(pedalRight.x, pedalHalfWidth), pedalRight.y),
   pedalRightBottom |-> Pt(Add(pedalRight.x, pedalHalfWidth), pedalRight.y),
   pedalLeftTop     |-> Pt(Sub(pedalLeft.x, pedalHalfWidth), pedalLeft.y),
   pedalLeftBottom  |-> Pt(Add(pedalLeft.x, pedalHalfWidth), pedalLeft.y)]

PedalPoints(cockpit, points) ==
  points @@
  PedalEnds(PedalRight(points["bb"], Scaled(Mm(cockpit.crankLength)),
                       toRadians(Dg(cockpit.pedalAngle))),
            PedalLeft(points["bb"], Scaled(Mm(cockpit.crankLength)),
                      toRadians(Dg(cockpit.pedalAngle))),
            Scaled(Times(Mm(PEDAL_WIDTH), 1, 2)))

(* 6. foot: the cleat under the right pedal and the foot contact point.     *)
Stretch(pedalPos, seatPos, riderInseam) ==
  Div(Hypot(Sub(seatPos.x, pedalPos.x), Sub(seatPos.y, pedalPos.y)),
      Add(LowerLeg(Mm(riderInseam)), UpperLeg(Mm(riderInseam))), T)

(* FootOn with the cleat bottom at larger y, under the axle on screen.       *)
FootOnUnderAxle(pedalPos, cleatDrop, footAngleRad) ==
  [cleatTop    |-> Pt(pedalPos.x, pedalPos.y),
   cleatBottom |-> Pt(pedalPos.x, Add(pedalPos.y, cleatDrop)),
   footContact |-> FootBelow(pedalPos, cleatDrop, footAngleRad)]

FootOn(pedalPos, cleatDrop, footAngleRad) ==
  [cleatTop    |-> Pt(pedalPos.x, pedalPos.y),
   cleatBottom |-> Pt(pedalPos.x, Sub(pedalPos.y, cleatDrop)),
   footContact |-> FootBelow(pedalPos, cleatDrop, footAngleRad)]

FootPoints(cockpit, rider, points) ==
  points @@
  FootOn(points["pedalRight"], Scaled(Mm(rider.shoeThickness)),
         toRadians(FootAngle(toRadians(Dg(cockpit.pedalAngle)),
                             Stretch(points["pedalRight"], points["saddleTop"],
                                     rider.riderInseam))))

(* 7. leg: the knee of the simple leg (foot to saddle), the hip, the hip    *)
(* joint, and the knee of the anatomical leg (foot to hip joint).           *)
HipJointOffset(rider) == Scaled(Times(Mm(rider.riderInseam), HIP_JOINT_RATIO, Thousand))

TorsoAngle(rider) == toRadians(Dg(rider.torsoAngle))

NewLowerLeg(rider) == LowerLeg(AnatomicalInseam(rider.riderInseam, HipJointOffset(rider)))
NewUpperLeg(rider) == UpperLeg(AnatomicalInseam(rider.riderInseam, HipJointOffset(rider)))

LegPoints(rider, points) ==
  points @@
  [knee     |-> SolveJoint(points["footContact"], points["saddleTop"],
                           LowerLeg(Mm(rider.riderInseam)), UpperLeg(Mm(rider.riderInseam))),
   hip      |-> points["saddleTop"],
   hipJoint |-> HipJoint(points["saddleTop"], HipJointOffset(rider), TorsoAngle(rider))]

KneePoints(rider, points) ==
  points @@
  [kneeNew |-> SolveJoint(points["footContact"], points["hipJoint"],
                          NewLowerLeg(rider), NewUpperLeg(rider))]

(* 8. upper body *)
HeadHeight(rider) == Scaled(Times(Mm(rider.riderHeight), HEAD_RATIO, Thousand))
NeckLength(rider) == Scaled(Times(Mm(rider.riderHeight), NECK_RATIO, Thousand))
TorsoLength(rider) ==
  Scaled(Sub(Sub(Sub(Mm(rider.riderHeight), Mm(rider.riderInseam)),
                 Unscaled(HeadHeight(rider))), Unscaled(NeckLength(rider))))

NeckPoints(shoulder, neckTop, headHeight, neckAngle) ==
  [shoulder |-> shoulder, neckTop |-> neckTop,
   headCenter |-> Upwards(neckTop, Times(headHeight, 1, 2), neckAngle)]

ShoulderPoints(shoulder, neckLength, headHeight, neckAngle) ==
  NeckPoints(shoulder, Upwards(shoulder, neckLength, neckAngle), headHeight, neckAngle)

TorsoPoints(rider, points) ==
  points @@
  ShoulderPoints(Upwards(points["hip"], TorsoLength(rider), TorsoAngle(rider)),
                 NeckLength(rider), HeadHeight(rider), toRadians(Dg(NECK_ANGLE)))

(* 9. arm: the elbow between the shoulder and the hand point.               *)
ArmPoints(cockpit, rider, points) ==
  points @@
  [elbow |-> SolveJoint(points["shoulder"], points[HandPointId(cockpit, points)],
                        Scaled(Times(Mm(rider.riderHeight), UPPER_ARM_RATIO, Thousand)),
                        Scaled(Times(Mm(rider.riderHeight), LOWER_ARM_RATIO, Thousand)))]

(* KneeToPedalX without the leading minus.                                  *)
KneeToPedalXUnnegated(pedalAt0, kneePosAt0) == Unscaled(Sub(kneePosAt0.x, pedalAt0.x))

(* -(kneePosAt0.x - pedalAt0.x) / SCALE, in mm.                             *)
KneeToPedalX(pedalAt0, kneePosAt0) == Unscaled(Neg(Sub(kneePosAt0.x, pedalAt0.x)))

KneeOverPedal(pedalAt0, cleatDrop, hipJointPos, lowerLegLength, upperLegLength) ==
  KneeToPedalX(pedalAt0,
    SolveJoint(FootBelow(pedalAt0, cleatDrop,
                         toRadians(BaseDynamicFootAngle(toRadians(0)))),
               hipJointPos, lowerLegLength, upperLegLength))

(* Result with kneeAngleAt90 taken at the current pedal angle.              *)
ResultAtCurrentAngle(bike, points, segments) ==
  [points        |-> points,
   segments      |-> segments,
   riderSegments |-> RiderSegments(HandPointId(bike.cockpit, points)),
   kneeAngle     |-> JointAngle(points["kneeNew"], points["footContact"], points["hipJoint"]),
   kneeAngleAt90 |->
     calculateKneeAngleAtPedalAngle(bike.cockpit.pedalAngle, bike.cockpit.crankLength, points["saddleTop"],
                                    points["bb"], bike.rider.riderInseam,
                                    bike.rider.shoeThickness, HipJointOffset(bike.rider),
                                    TorsoAngle(bike.rider)),
   kneeAngleAt270 |->
     calculateKneeAngleAtPedalAngle(270, bike.cockpit.crankLength, points["saddleTop"],
                                    points["bb"], bike.rider.riderInseam,
                                    bike.rider.shoeThickness, HipJointOffset(bike.rider),
                                    TorsoAngle(bike.rider)),
   saddleHandlebarDrop |->
     Unscaled(Sub(points["handlebarCenter"].y, points["saddleTop"].y)),
   kneeTopedalXAt0 |->
     KneeOverPedal(Polar(points["bb"], Scaled(Mm(bike.cockpit.crankLength)), toRadians(0)),
                   Scaled(Mm(bike.rider.shoeThickness)), points["hipJoint"],
                   NewLowerLeg(bike.rider), NewUpperLeg(bike.rider)),
   shoulderAngle |-> JointAngle(points["shoulder"], points["hipJoint"], points["elbow"]),
   elbowAngle    |-> JointAngle(points["elbow"], points["shoulder"],
                                points[HandPointId(bike.cockpit, points)])]

(* The returned object. *)
Result(bike, points, segments) ==
  [points        |-> points,
   segments      |-> segments,
   riderSegments |-> RiderSegments(HandPointId(bike.cockpit, points)),
   kneeAngle     |-> JointAngle(points["kneeNew"], points["footContact"], points["hipJoint"]),
   kneeAngleAt90 |->
     calculateKneeAngleAtPedalAngle(90, bike.cockpit.crankLength, points["saddleTop"],
                                    points["bb"], bike.rider.riderInseam,
                                    bike.rider.shoeThickness, HipJointOffset(bike.rider),
                                    TorsoAngle(bike.rider)),
   kneeAngleAt270 |->
     calculateKneeAngleAtPedalAngle(270, bike.cockpit.crankLength, points["saddleTop"],
                                    points["bb"], bike.rider.riderInseam,
                                    bike.rider.shoeThickness, HipJointOffset(bike.rider),
                                    TorsoAngle(bike.rider)),
   saddleHandlebarDrop |->
     Unscaled(Sub(points["handlebarCenter"].y, points["saddleTop"].y)),
   kneeTopedalXAt0 |->
     KneeOverPedal(Polar(points["bb"], Scaled(Mm(bike.cockpit.crankLength)), toRadians(0)),
                   Scaled(Mm(bike.rider.shoeThickness)), points["hipJoint"],
                   NewLowerLeg(bike.rider), NewUpperLeg(bike.rider)),
   shoulderAngle |-> JointAngle(points["shoulder"], points["hipJoint"], points["elbow"]),
   elbowAngle    |-> JointAngle(points["elbow"], points["shoulder"],
                                points[HandPointId(bike.cockpit, points)])]

RiderPoints(bike, points) ==
  ArmPoints(bike.cockpit, bike.rider,
    TorsoPoints(bike.rider,
      KneePoints(bike.rider,
        LegPoints(bike.rider,
          FootPoints(bike.cockpit, bike.rider, points)))))

(* Saddle and pedals go on after the drop arc; the frame segments are      *)
(* pushed after the arc's.                                                  *)
WithRider(bike, arc) ==
  Result(bike,
         RiderPoints(bike, PedalPoints(bike.cockpit,
                             SaddlePoints(bike.geometry, bike.cockpit, arc.points))),
         arc.segments \o FrameSegments)

calculateBikeGeometry(bike) ==
  WithRider(bike,
    DropArc(createHandlebarArc(
      CockpitPoints(bike.geometry, bike.cockpit, FramePoints(bike.geometry)),
      << >>, bike.cockpit.handlebarDrop)))

(***************************************************************************)
(* Defaults and limits of the selector (lib/defaults.ts).                  *)
(***************************************************************************)
COCKPIT_LIMITS ==
  [spacerHeight   |-> [min |-> 0,      max |-> 5000],
   headsetCap     |-> [min |-> 0,      max |-> 15],
   stemLength     |-> [min |-> 40,     max |-> 1500],
   stemAngle      |-> [min |-> 0 - 25, max |-> 25],
   handlebarReach |-> [min |-> 50,     max |-> 100],
   handlebarDrop  |-> [min |-> 100,    max |-> 160],
   crankLength    |-> [min |-> 165,    max |-> 175],
   pedalAngle     |-> [min |-> 0,      max |-> 360],
   seatPostLength |-> [min |-> 100,    max |-> 400]]

DEFAULT_COCKPIT ==
  [spacerHeight |-> 30, headsetCap |-> 5, stemLength |-> 80, stemAngle |-> 0 - 6,
   handlebarReach |-> 75, handlebarDrop |-> 125, crankLength |-> 165,
   pedalAngle |-> 0, handPosition |-> "hoods", seatPostLength |-> 210]

DEFAULT_RIDER ==
  [riderHeight |-> 1830, riderInseam |-> 890, torsoAngle |-> 30, shoeThickness |-> 15]

(* The number inputs of the selector that call handleCockpitChange.         *)
EditableCockpitFields ==
  {"stemLength", "stemAngle", "spacerHeight", "headsetCap", "handlebarReach",
   "handlebarDrop", "seatPostLength", "saddleSetback", "saddleLength",
   "sitboneOffset", "crankLength", "pedalAngle"}

(* The min and max attributes of the rider inputs.                          *)
RIDER_INPUT_BOUNDS ==
  [riderHeight   |-> [min |-> 1500, max |-> 2200],
   riderInseam   |-> [min |-> 700,  max |-> 1100],
   torsoAngle    |-> [min |-> 0,    max |-> 90],
   shoeThickness |-> [min |-> 0,    max |-> 50]]

RiderFields == DOMAIN DEFAULT_RIDER

(* clampCockpitValue(field, value); the caller has checked that the field   *)
(* has limits (without them the destructuring throws a TypeError).          *)
clampCockpitValue(field, value) ==
  LET lim == COCKPIT_LIMITS[field]
  IN  MathMax(lim.min, MathMin(lim.max, value))

ClampThrows(field) == field \notin DOMAIN COCKPIT_LIMITS

(* clampCockpitSetup(cockpit)                                               *)
clampCockpitSetup(cockpit) ==
  [f \in DOMAIN COCKPIT_LIMITS \cup {"handPosition"} |->
     IF f = "handPosition" THEN cockpit.handPosition
     ELSE clampCockpitValue(f, cockpit[f])]

(***************************************************************************)
(* The catalog.  bikes.json is data outside the sources; the model uses a  *)
(* small catalog of the validated shape: a list of brands, each a list of  *)
(* models, each a list of sizes with a geometry, in file order.            *)
(***************************************************************************)
Geo58 ==
  [stack |-> 560, reach |-> 390, headTubeAngle |-> 73, seatTubeAngle |-> 74,
   forkLength |-> 370, bbDrop |-> 70, headTubeLength |-> 150, seatTubeLength |-> 520,
   chainstayLength |-> 410, frontCenter |-> 600]

(* A geometry without the optional fields.                                  *)
Geo54 ==
  [stack |-> 540, reach |-> 380, headTubeAngle |-> 72, seatTubeAngle |-> 74,
   forkLength |-> 370, bbDrop |-> 72, seatTubeLength |-> 480]

Entry(key, val) == [key |-> key, val |-> val]

(* Every listed geometry has the fields the schema requires; the optional   *)
(* ones are missing from two of them.                                       *)
AVAILABLE_BIKES ==
  << Entry("Cannondale",
           << Entry("SuperSix Evo4",
                    << Entry("58", Geo58),
                       Entry("54", Geo54 @@ [headTubeLength |-> 130]) >>) >>),
     Entry("Canyon",
           << Entry("Aeroad", << Entry("M", Geo54 @@ [headTubeLength |-> 140]) >>) >>) >>

(* Object.keys(map), map[key] and `key in map` of an ordered map.           *)
Keys(map) == [i \in 1..Len(map) |-> map[i].key]
Has(map, key) == \E i \in 1..Len(map) : map[i].key = key
Get(map, key) == map[CHOOSE i \in 1..Len(map) : map[i].key = key].val

(***************************************************************************)
(* lib/bikes-schema.ts.  A value of type `unknown` as JSON.parse can make  *)
(* it: a number, a string, null, or an object from keys to values.         *)
(***************************************************************************)
JNumber(n) == [t |-> "number", n |-> n]
JString(str) == [t |-> "string", s |-> str]
JNull == [t |-> "null"]
JObject(f) == [t |-> "object", v |-> f]

EmptyObject == JObject([k \in {} |-> JNull])

RequiredKeys ==
  {"stack", "reach", "headTubeAngle", "seatTubeAngle", "forkLength", "bbDrop",
   "headTubeLength", "seatTubeLength"}
OptionalKeys == {"chainstayLength", "frontCenter"}

(* bikeGeometrySchema with headTubeLength optional.                         *)
GeometryOkLenient(j) ==
  /\ j.t = "object"
  /\ \A k \in RequiredKeys \ {"headTubeLength"} : k \in DOMAIN j.v /\ j.v[k].t = "number"
  /\ \A k \in OptionalKeys \cup {"headTubeLength"} : k \in DOMAIN j.v => j.v[k].t = "number"

(* bikeGeometrySchema: z.object of z.number() fields, two of them           *)
(* .optional().  A z.object accepts unknown keys and leaves them out of     *)
(* its output.                                                              *)
GeometryOk(j) ==
  /\ j.t = "object"
  /\ \A k \in RequiredKeys : k \in DOMAIN j.v /\ j.v[k].t = "number"
  /\ \A k \in OptionalKeys : k \in DOMAIN j.v => j.v[k].t = "number"

GeometryData(j) ==
  JObject([k \in DOMAIN j.v \cap (RequiredKeys \cup OptionalKeys) |-> j.v[k]])

(* availableBikesSchema: `depth` nested z.record(z.string(), ...) around    *)
(* bikeGeometrySchema; safeParse(...).success and .data.                    *)
RECURSIVE SchemaOk(_, _)
SchemaOk(j, depth) ==
  IF depth = 0 THEN GeometryOk(j)
  ELSE j.t = "object" /\ \A k \in DOMAIN j.v : SchemaOk(j.v[k], depth - 1)

RECURSIVE SchemaData(_, _)
SchemaData(j, depth) ==
  IF depth = 0 THEN GeometryData(j)
  ELSE JObject([k \in DOMAIN j.v |-> SchemaData(j.v[k], depth - 1)])

(* export function parseBikesData(data: unknown): AvailableBikesMap         *)
parseBikesData(data) == IF SchemaOk(data, 3) THEN SchemaData(data, 3) ELSE EmptyObject

(* The JSON text of an ordered map of the catalog, `depth` levels above     *)
(* the geometries.                                                          *)
RECURSIVE JsonOfMap(_, _)
JsonOfMap(map, depth) ==
  IF depth = 0 THEN JObject([k \in DOMAIN map |-> JNumber(map[k])])
  ELSE JObject([k \in {map[i].key : i \in 1..Len(map)} |->
                  JsonOfMap(Get(map, k), depth - 1)])

JsonOfBikes(bikes) == JsonOfMap(bikes, 3)

NotLoaded == [t |-> "not loaded"]

NoBike == [null |-> TRUE]
IsNull(b) == "null" \in DOMAIN b

NoGeometry == [null |-> TRUE]

(***************************************************************************)
(* The page (app/page.tsx) and the two bike selectors.                     *)
(***************************************************************************)
MaxEdits == 3

Slots == {"A", "B"}

(* What a number input can hand to its onChange: Number(text).              *)
InputNumbers == {0 - 30, 0, 60, 5000}

BikeOf(slot) == IF slot = "A" THEN bikeA ELSE bikeB

(* The setBike prop: Bike A's ignores null, Bike B's is setBikeB.           *)
SetBike(slot, bike) ==
  IF slot = "A"
  THEN bikeA' = (IF IsNull(bike) THEN bikeA ELSE bike) /\ UNCHANGED bikeB
  ELSE bikeB' = bike /\ UNCHANGED bikeA

NewBike(brand, model, size, geometry) ==
  [brand |-> brand, model |-> model, size |-> size, geometry |-> geometry,
   cockpit |-> clampCockpitSetup(DEFAULT_COCKPIT), rider |-> DEFAULT_RIDER]

(* function getFirstAvailableBike(): the first bike of the catalog.         *)
getFirstAvailableBike ==
  LET brand == AVAILABLE_BIKES[1]
      model == brand.val[1]
      size  == model.val[1]
  IN  NewBike(brand.key, model.key, size.key, size.val)

Handled(didThrow) ==
  /\ edits < MaxEdits
  /\ edits' = edits + 1
  /\ thrown' = didThrow
  /\ UNCHANGED << geometryA, geometryB, kneeAt90, ampel, bikesData, parsedBikes >>
  /\ UNCHANGED viewVars

handleBrandChange(slot, brand) ==
  /\ Handled(FALSE)
  /\ IF brand = "none" THEN SetBike(slot, NoBike)
     ELSE LET models == IF Has(AVAILABLE_BIKES, brand)
                        THEN Get(AVAILABLE_BIKES, brand) ELSE << >>
          IN  IF models = << >> \/ models[1].val = << >>
              THEN UNCHANGED << bikeA, bikeB >>
              ELSE SetBike(slot, NewBike(brand, models[1].key, models[1].val[1].key,
                                         models[1].val[1].val))

handleModelChange(slot, model) ==
  /\ Handled(FALSE)
  /\ LET bike == BikeOf(slot)
     IN  IF IsNull(bike) \/ ~Has(AVAILABLE_BIKES, bike.brand)
            \/ ~Has(Get(AVAILABLE_BIKES, bike.brand), model)
            \/ Get(Get(AVAILABLE_BIKES, bike.brand), model) = << >>
         THEN UNCHANGED << bikeA, bikeB >>
         ELSE LET sizes == Get(Get(AVAILABLE_BIKES, bike.brand), model)
              IN  SetBike(slot, [bike EXCEPT !.model = model, !.size = sizes[1].key,
                                             !.geometry = sizes[1].val])

handleSizeChange(slot, size) ==
  /\ Handled(FALSE)
  /\ LET bike == BikeOf(slot)
     IN  IF IsNull(bike) \/ ~Has(AVAILABLE_BIKES, bike.brand)
            \/ ~Has(Get(AVAILABLE_BIKES, bike.brand), bike.model)
            \/ ~Has(Get(Get(AVAILABLE_BIKES, bike.brand), bike.model), size)
         THEN UNCHANGED << bikeA, bikeB >>
         ELSE SetBike(slot, [bike EXCEPT
                !.size = size,
                !.geometry = Get(Get(Get(AVAILABLE_BIKES, bike.brand), bike.model), size)])

(* handleCockpitChange(field, value): a non-finite value keeps the stored   *)
(* one; the value is clamped to the field's limits; a field without limits  *)
(* makes clampCockpitValue throw before setBike is reached.                 *)
handleCockpitChange(slot, field, value) ==
  LET bike == BikeOf(slot)
  IN  IF IsNull(bike)
      THEN Handled(FALSE) /\ UNCHANGED << bikeA, bikeB >>
      ELSE IF ClampThrows(field)
      THEN Handled(TRUE) /\ UNCHANGED << bikeA, bikeB >>
      ELSE LET raw  == IF IsFiniteNum(value) THEN value
                       ELSE OrDefault(bike.cockpit, field, 0)
               safe == clampCockpitValue(field, raw)
           IN  /\ Handled(FALSE)
               /\ SetBike(slot, [bike EXCEPT !.cockpit = (field :> safe) @@ bike.cockpit])

(* handleRiderChange(field, value): a non-finite value keeps the stored     *)
(* one; the value is stored as given.                                       *)
handleRiderChange(slot, field, value) ==
  LET bike == BikeOf(slot)
  IN  /\ Handled(FALSE)
      /\ IF IsNull(bike) THEN UNCHANGED << bikeA, bikeB >>
         ELSE LET safeValue == IF IsFiniteNum(value) THEN value ELSE bike.rider[field]
              IN  SetBike(slot, [bike EXCEPT !.rider[field] = safeValue])

handleHandPositionChange(slot, position) ==
  LET bike == BikeOf(slot)
  IN  /\ Handled(FALSE)
      /\ IF IsNull(bike) THEN UNCHANGED << bikeA, bikeB >>
         ELSE SetBike(slot, [bike EXCEPT !.cockpit.handPosition = position])

BrandChoices == {"none"} \cup {AVAILABLE_BIKES[i].key : i \in 1..Len(AVAILABLE_BIKES)}
ModelChoices == {"SuperSix Evo4", "Aeroad"}
SizeChoices  == {"58", "54", "M"}

Init ==
  /\ bikeA = getFirstAvailableBike
  /\ bikeB = NoBike
  /\ thrown = FALSE
  /\ edits = 0
  /\ geometryA = NoGeometry
  /\ geometryB = NoGeometry
  /\ kneeAt90 = NaN
  /\ ampel = "none"
  /\ bikesData = JsonOfBikes(AVAILABLE_BIKES)
  /\ parsedBikes = parseBikesData(bikesData)
  /\ InitView

Next ==
  \/ \E slot \in Slots, brand \in BrandChoices : handleBrandChange(slot, brand)
  \/ \E slot \in Slots, model \in ModelChoices : handleModelChange(slot, model)
  \/ \E slot \in Slots, size \in SizeChoices : handleSizeChange(slot, size)
  \/ \E slot \in Slots, field \in EditableCockpitFields, value \in InputNumbers :
       handleCockpitChange(slot, field, value)
  \/ \E slot \in Slots, field \in RiderFields, value \in InputNumbers :
       handleRiderChange(slot, field, value)
  \/ \E slot \in Slots, position \in {"hoods", "drops"} :
       handleHandPositionChange(slot, position)

Spec == Init /\ [][Next]_vars

(***************************************************************************)
(* The pedal animation of the page (app/page.tsx).                         *)
(***************************************************************************)
(* a % b of two numbers, b > 0: the remainder has the sign of a.            *)
JsRem(a, b) == IF a >= 0 THEN a % b ELSE 0 - ((0 - a) % b)

(* PedalTick without the modulo.                                            *)
PedalTickUnwrapped(bike) ==
  [bike EXCEPT !.cockpit.pedalAngle = bike.cockpit.pedalAngle + 1]

(* One tick of the pedal animation on one bike: the pedal angle one degree  *)
(* further, modulo 360.                                                     *)
PedalTick(bike) ==
  [bike EXCEPT !.cockpit.pedalAngle = JsRem(bike.cockpit.pedalAngle + 1, 360)]

MaxTicks == 3

(* setIsPedaling(value), the state setter handed to the visualization.      *)
setIsPedaling(value) ==
  /\ isPedaling' = value
  /\ UNCHANGED << bikeA, bikeB, thrown, edits, geometryA, geometryB, kneeAt90, ampel,
                  bikesData, parsedBikes, ticks, elbowShown, elbowClass,
                  measureMode, measurePoints, lastEvent >>

(* The callback of setInterval: the interval exists only while isPedaling   *)
(* is true; setBikeA always, setBikeB when Bike B is present.               *)
pedalTick ==
  /\ isPedaling
  /\ ticks < MaxTicks
  /\ ticks' = ticks + 1
  /\ bikeA' = PedalTick(bikeA)
  /\ bikeB' = IF IsNull(bikeB) THEN bikeB ELSE PedalTick(bikeB)
  /\ UNCHANGED << thrown, edits, geometryA, geometryB, kneeAt90, ampel,
                  bikesData, parsedBikes, isPedaling, elbowShown, elbowClass,
                  measureMode, measurePoints, lastEvent >>

NextPedal ==
  \/ \E value \in BOOLEAN : setIsPedaling(value)
  \/ pedalTick
  \/ \E slot \in Slots, value \in InputNumbers :
       handleCockpitChange(slot, "pedalAngle", value)
  \/ \E brand \in BrandChoices : handleBrandChange("B", brand)

SpecPedal == Init /\ [][NextPedal]_vars

(***************************************************************************)
(* The measure tool of the visualization (bike-visualization).             *)
(***************************************************************************)
MeasureIds == {"bb", "saddleTop", "frontWheel", "rearWheel", "handlebarCenter", "seatTubeTop"}

MeasurePoint(id, bikeId) == [id |-> id, bike |-> bikeId]

IsSelected(prev, id, bikeId) ==
  \E i \in 1..Len(prev) : prev[i].id = id /\ prev[i].bike = bikeId

(* The updater of handlePointClick without the limit of two points.         *)
ClickedSelectionUnlimited(prev, id, bikeId) ==
  IF IsSelected(prev, id, bikeId)
  THEN SelectSeq(prev, LAMBDA p : ~(p.id = id /\ p.bike = bikeId))
  ELSE Append(prev, MeasurePoint(id, bikeId))

(* The updater handlePointClick passes to setMeasurePoints.                 *)
ClickedSelection(prev, id, bikeId) ==
  IF IsSelected(prev, id, bikeId)
  THEN SelectSeq(prev, LAMBDA p : ~(p.id = id /\ p.bike = bikeId))
  ELSE IF Len(prev) >= 2 THEN << MeasurePoint(id, bikeId) >>
  ELSE Append(prev, MeasurePoint(id, bikeId))

MeasureUnchanged ==
  UNCHANGED << bikeA, bikeB, thrown, edits, geometryA, geometryB, kneeAt90, ampel,
               bikesData, parsedBikes, isPedaling, ticks, elbowShown, elbowClass >>

(* handlePointClick(id) of the bike bikeId.                                 *)
handlePointClick(id, bikeId) ==
  /\ lastEvent' = Event("point", id, bikeId)
  /\ measurePoints' = IF ~measureMode THEN measurePoints
                      ELSE ClickedSelection(measurePoints, id, bikeId)
  /\ UNCHANGED measureMode
  /\ MeasureUnchanged

(* handleSvgClick(e): target names what was hit, the svg or a g element     *)
(* ("background") or another shape.                                         *)
handleSvgClick(target) ==
  /\ lastEvent' = Event("svg", target, "")
  /\ measurePoints' = IF measureMode /\ Len(measurePoints) = 2 /\ target = "background"
                      THEN << >> ELSE measurePoints
  /\ UNCHANGED measureMode
  /\ MeasureUnchanged

(* onClick of the measure button.                                           *)
toggleMeasureMode ==
  /\ lastEvent' = Event("toggle", "", "")
  /\ measureMode' = ~measureMode
  /\ measurePoints' = << >>
  /\ MeasureUnchanged

NextMeasure ==
  \/ \E id \in MeasureIds, bikeId \in Slots : handlePointClick(id, bikeId)
  \/ \E target \in {"background", "shape"} : handleSvgClick(target)
  \/ toggleMeasureMode

SpecMeasure == Init /\ [][NextMeasure]_vars

(***************************************************************************)
(* The knee angle traffic light at crank 90 degrees (bike-visualization).  *)
(***************************************************************************)
KNEE_90_MIN == 134
KNEE_90_MIN_WARNING == 137
KNEE_90_MAX_WARNING == 149
KNEE_90_MAX == 153

(* Knee90Class with the red limits exclusive.                               *)
Knee90ClassExclusive(angle) ==
  LET isRed    == Lt(angle, Dg(KNEE_90_MIN)) \/ Gt(angle, Dg(KNEE_90_MAX))
      isYellow == ~isRed /\ (Lt(angle, Dg(KNEE_90_MIN_WARNING))
                             \/ Gt(angle, Dg(KNEE_90_MAX_WARNING)))
  IN  IF isRed THEN "red" ELSE IF isYellow THEN "yellow" ELSE "green"

(* isRed / isYellow / ampelColor of an angle given in 1/AngScale degrees.   *)
Knee90Class(angle) ==
  LET isRed    == Le(angle, Dg(KNEE_90_MIN)) \/ Ge(angle, Dg(KNEE_90_MAX))
      isYellow == ~isRed /\ (Lt(angle, Dg(KNEE_90_MIN_WARNING))
                             \/ Gt(angle, Dg(KNEE_90_MAX_WARNING)))
  IN  IF isRed THEN "red" ELSE IF isYellow THEN "yellow" ELSE "green"

(* Angles handed to the light: every 1/AngScale degree from 120 degrees     *)
(* on, and the NaN a degenerate rider produces.                             *)
Knee90Steps == 4500

Knee90Samples == {120 * AngScale + k : k \in 0..Knee90Steps} \cup {NaN}

InitKnee90 ==
  /\ kneeAt90 \in Knee90Samples
  /\ ampel = "none"
  /\ bikesData = JsonOfBikes(AVAILABLE_BIKES)
  /\ parsedBikes = parseBikesData(bikesData)
  /\ InitView
  /\ bikeA = getFirstAvailableBike
  /\ bikeB = NoBike
  /\ thrown = FALSE
  /\ edits = 0
  /\ geometryA = NoGeometry
  /\ geometryB = NoGeometry

ShowKnee90 ==
  /\ ampel = "none"
  /\ ampel' = Knee90Class(kneeAt90)
  /\ UNCHANGED << bikeA, bikeB, thrown, edits, geometryA, geometryB, kneeAt90,
                  bikesData, parsedBikes >>
  /\ UNCHANGED viewVars

NextKnee90 == ShowKnee90

SpecKnee90 == InitKnee90 /\ [][NextKnee90]_vars

(***************************************************************************)
(* The visualization's render (bike-visualization.tsx): one engine call    *)
(* per bike that is present.                                               *)
(***************************************************************************)
Render ==
  /\ geometryA = NoGeometry
  /\ geometryA' = calculateBikeGeometry(bikeA)
  /\ geometryB' = IF IsNull(bikeB) THEN NoGeometry ELSE calculateBikeGeometry(bikeB)
  /\ UNCHANGED << bikeA, bikeB, thrown, edits, kneeAt90, ampel, bikesData, parsedBikes >>
  /\ UNCHANGED viewVars

(***************************************************************************)
(* Engine inputs.  The engine accepts any BikeData, not only the ones the  *)
(* selector produces: the grid below varies the fields the engine branches *)
(* on (optional geometry fields, sign of the drop, hand position, pedal    *)
(* angle, zero rider lengths).                                             *)
(***************************************************************************)
PedalSteps == 8

PedalAngles == {k * (360 \div PedalSteps) : k \in 0..(PedalSteps - 1)}

DropValues   == {0 - 125, 0, 125}
InseamValues == {0, 890}
HeightValues == {0, 1830}

EngineBike(geometry, drop, hand, pedal, inseam, height) ==
  [brand |-> "Cannondale", model |-> "SuperSix Evo4", size |-> "58",
   geometry |-> geometry,
   cockpit |-> [DEFAULT_COCKPIT EXCEPT !.handlebarDrop = drop, !.handPosition = hand,
                                       !.pedalAngle = pedal],
   rider |-> [DEFAULT_RIDER EXCEPT !.riderInseam = inseam, !.riderHeight = height]]

GridInputs ==
  {EngineBike(g, drop, hand, pedal, inseam, height) :
     g \in {Geo58, Geo54}, drop \in DropValues, hand \in {"hoods", "drops"},
     pedal \in PedalAngles, inseam \in InseamValues, height \in HeightValues}

WithSeat(bike, seatPostLength, inseam) ==
  [bike EXCEPT !.cockpit.seatPostLength = seatPostLength, !.rider.riderInseam = inseam]

(* Riders whose leg is exactly straight at crank 90 degrees.                *)
StraightLegInputs ==
  {WithSeat(EngineBike(Geo58, 125, "hoods", 90, 890, 1830), t[1], t[2]) :
     t \in {<< 323, 889 >>, << 310, 877 >>, << 340, 905 >>}}

(* A rider whose foot contact point meets the hip joint: a flat seat tube,  *)
(* an upright torso and the crank at the top.                               *)
CoincidentInputs ==
  {[EngineBike([Geo58 EXCEPT !.seatTubeAngle = 0, !.seatTubeLength = 50],
               125, "hoods", 270, 1000, 1830)
      EXCEPT !.cockpit.seatPostLength = 40, !.cockpit.crankLength = 80,
             !.rider.torsoAngle = 90]}

(* Frames whose chainstay or front centre is no longer than the bottom      *)
(* bracket drop of 70 mm.                                                   *)
ShortStayInputs ==
  {[EngineBike(Geo58, 125, "hoods", 90, 890, 1830)
      EXCEPT !.geometry.chainstayLength = t[1], !.geometry.frontCenter = t[2]] :
     t \in {<< 50, 70 >>, << 410, 60 >>}}

(* Cockpits that carry the optional saddle fields, as after an edit of the  *)
(* selector's setback and saddle length inputs.                             *)
SaddleEditInputs ==
  {[EngineBike(Geo58, 125, "hoods", 90, 890, 1830)
      EXCEPT !.cockpit = @ @@ [saddleSetback |-> t[1], saddleLength |-> t[2]]] :
     t \in {<< 80, 255 >>, << 40, 280 >>}}

(* Riders whose legs do not reach the pedal at crank 90 degrees: a short    *)
(* inseam on a long seat post.                                              *)
OverStretchedInputs ==
  {[EngineBike([Geo58 EXCEPT !.seatTubeAngle = 72, !.seatTubeLength = 500],
               125, "hoods", 90, t[1], 1830)
      EXCEPT !.cockpit.seatPostLength = t[2], !.rider.torsoAngle = 45] :
     t \in {<< 710, 236 >>, << 700, 294 >>, << 760, 300 >>}}

EngineInputs ==
  GridInputs \cup StraightLegInputs \cup CoincidentInputs \cup ShortStayInputs
  \cup SaddleEditInputs \cup OverStretchedInputs

(* The bike with every length input multiplied by k, angles unchanged.      *)
GeometryLengths ==
  {"stack", "reach", "forkLength", "bbDrop", "headTubeLength", "seatTubeLength",
   "chainstayLength", "frontCenter"}
CockpitLengths ==
  {"spacerHeight", "headsetCap", "stemLength", "handlebarReach", "handlebarDrop",
   "crankLength", "seatPostLength"}
RiderLengths == {"riderHeight", "riderInseam", "shoeThickness"}

ScaleFields(rec, fields, k) ==
  [f \in DOMAIN rec |-> IF f \in fields THEN k * rec[f] ELSE rec[f]]

ScaleLengths(bike, k) ==
  [bike EXCEPT !.geometry = ScaleFields(bike.geometry, GeometryLengths, k),
               !.cockpit  = ScaleFields(bike.cockpit, CockpitLengths, k),
               !.rider    = ScaleFields(bike.rider, RiderLengths, k)]

(* The bike with the crank half a turn further.                             *)
OppositePedal(bike) ==
  [bike EXCEPT !.cockpit.pedalAngle = bike.cockpit.pedalAngle + 180]


(* The bike with the three defaulted geometry fields supplied as their      *)
(* defaults wherever they are missing.                                      *)
FilledDefaults(bike) ==
  [bike EXCEPT !.geometry =
     bike.geometry
     @@ [frontCenter |-> DEFAULT_FRONT_CENTER,
         chainstayLength |-> DEFAULT_CHAINSTAY_LENGTH,
         headTubeLength |-> DEFAULT_HEADTUBE_LENGTH]]

InitEngine ==
  /\ bikeA \in EngineInputs
  /\ bikeB \in {NoBike, ScaleLengths(bikeA, 2), OppositePedal(bikeA), FilledDefaults(bikeA),
                PedalTick(bikeA)}
  /\ thrown = FALSE
  /\ edits = 0
  /\ geometryA = NoGeometry
  /\ geometryB = NoGeometry
  /\ kneeAt90 = NaN
  /\ ampel = "none"
  /\ bikesData = JsonOfBikes(AVAILABLE_BIKES)
  /\ parsedBikes = parseBikesData(bikesData)
  /\ InitView

NextEngine == Render

SpecEngine == InitEngine /\ [][NextEngine]_vars

(***************************************************************************)
(* Loading the catalog (app/page.tsx): parseBikesData applied to whatever  *)
(* bikes.json holds.  The samples are catalogs around one geometry entry   *)
(* that is complete, lacks a field, has a field of the wrong type, has an  *)
(* unknown field, or is not an object, alone or among valid entries, and   *)
(* values that are not a brand / model / size structure at all.            *)
(***************************************************************************)
GeometryJson == JsonOfMap(Geo58, 0).v

Without(f, keys) == [k \in DOMAIN f \ keys |-> f[k]]

GeometrySamples ==
  {JObject(GeometryJson), JObject(Without(GeometryJson, OptionalKeys)),
   JObject(GeometryJson @@ [wheelbase |-> JNumber(1010)]),
   JNull, JString("58"), JNumber(58)}
  \cup {JObject(Without(GeometryJson, {k})) : k \in RequiredKeys}
  \cup {JObject([GeometryJson EXCEPT ![k] = bad]) :
          k \in RequiredKeys \cup OptionalKeys, bad \in {JString("560"), JNull}}

OneBike(g) == JObject([Cannondale |-> JObject([SuperSix |-> JObject([M |-> g])])])

AmongValid(g) ==
  JObject([Cannondale |->
             JObject([SuperSix |-> JObject([L |-> JObject(GeometryJson), M |-> g])]),
           Canyon |->
             JObject([Aeroad |-> JObject([S |-> JObject(Without(GeometryJson,
                                                                OptionalKeys))])])])

BikesDataSamples ==
  {OneBike(g) : g \in GeometrySamples} \cup {AmongValid(g) : g \in GeometrySamples}
  \cup {JsonOfBikes(AVAILABLE_BIKES)}
  \cup {JNull, JString("bikes"), JNumber(0), EmptyObject,
        JObject([Cannondale |-> JNull]), JObject([Cannondale |-> EmptyObject]),
        JObject([Cannondale |-> JObject([SuperSix |-> JString("M")])]),
        JObject([Cannondale |-> JObject([SuperSix |-> EmptyObject])])}

InitParse ==
  /\ bikesData \in BikesDataSamples
  /\ parsedBikes = NotLoaded
  /\ bikeA = NoBike
  /\ bikeB = NoBike
  /\ thrown = FALSE
  /\ edits = 0
  /\ geometryA = NoGeometry
  /\ geometryB = NoGeometry
  /\ kneeAt90 = NaN
  /\ ampel = "none"
  /\ InitView

(* const AVAILABLE_BIKES = parseBikesData(bikesData): safeParse reports a   *)
(* failure in its result, nothing is thrown.                                *)
LoadBikes ==
  /\ parsedBikes = NotLoaded
  /\ parsedBikes' = parseBikesData(bikesData)
  /\ thrown' = FALSE
  /\ UNCHANGED << bikeA, bikeB, edits, geometryA, geometryB, kneeAt90, ampel, bikesData >>
  /\ UNCHANGED viewVars

(* DEFAULT_BIKE_SELECTION (lib/defaults.ts).                                *)
DEFAULT_BIKE_SELECTION ==
  [brand |-> "Cannondale", model |-> "SuperSix Evo4", size |-> "58"]

(* The BikeGeometry a validated geometry object is.                         *)
GeometryOfJson(j) == [k \in DOMAIN j.v |-> j.v[k].n]

(* catalog[brand]?.[model]?.[size] is defined.                              *)
HasPath(catalog, brand, model, size) ==
  /\ brand \in DOMAIN catalog.v
  /\ model \in DOMAIN catalog.v[brand].v
  /\ size \in DOMAIN catalog.v[brand].v[model].v

(* The fallback of getFirstAvailableBike below brand: the first size of     *)
(* the first model, or null.  The objects of the model carry no key order,  *)
(* so Object.keys(...)[0] is any one of the keys.                           *)
FallbackBikesOf(catalog, brand) ==
  IF DOMAIN catalog.v[brand].v = {} THEN {NoBike}
  ELSE UNION {IF DOMAIN catalog.v[brand].v[model].v = {} THEN {NoBike}
              ELSE {NewBike(brand, model, size,
                            GeometryOfJson(catalog.v[brand].v[model].v[size])) :
                      size \in DOMAIN catalog.v[brand].v[model].v} :
                model \in DOMAIN catalog.v[brand].v}

(* function getFirstAvailableBike() over a parsed catalog: the bikes it can *)
(* return, NoBike for null.                                                 *)
FirstBikesOf(catalog) ==
  IF HasPath(catalog, DEFAULT_BIKE_SELECTION.brand, DEFAULT_BIKE_SELECTION.model,
             DEFAULT_BIKE_SELECTION.size)
  THEN {NewBike(DEFAULT_BIKE_SELECTION.brand, DEFAULT_BIKE_SELECTION.model,
                DEFAULT_BIKE_SELECTION.size,
                GeometryOfJson(catalog.v[DEFAULT_BIKE_SELECTION.brand]
                                 .v[DEFAULT_BIKE_SELECTION.model]
                                 .v[DEFAULT_BIKE_SELECTION.size]))}
  ELSE IF DOMAIN catalog.v = {} THEN {NoBike}
  ELSE UNION {FallbackBikesOf(catalog, brand) : brand \in DOMAIN catalog.v}

(* The bike Home starts with when getFirstAvailableBike returns null.       *)
PlaceholderBike ==
  [brand |-> "", model |-> "", size |-> "",
   geometry |-> [stack |-> 0, reach |-> 0, headTubeAngle |-> 0, seatTubeAngle |-> 0,
                 forkLength |-> 0, bbDrop |-> 0, headTubeLength |-> 0,
                 seatTubeLength |-> 0, chainstayLength |-> 0, frontCenter |-> 0,
                 forkOffset |-> 0, wheelbase |-> 0, standoverHeight |-> 0],
   cockpit |-> clampCockpitSetup(DEFAULT_COCKPIT), rider |-> DEFAULT_RIDER]

(* Home's useState initialiser of bikeA, run once the catalog is parsed.    *)
MountHome ==
  /\ parsedBikes # NotLoaded
  /\ IsNull(bikeA)
  /\ \E first \in FirstBikesOf(parsedBikes) :
       bikeA' = IF IsNull(first) THEN PlaceholderBike ELSE first
  /\ UNCHANGED << bikeB, thrown, edits, geometryA, geometryB, kneeAt90, ampel,
                  bikesData, parsedBikes >>
  /\ UNCHANGED viewVars

NextParse == LoadBikes \/ MountHome

SpecParse == InitParse /\ [][NextParse]_vars

(***************************************************************************)
(* The elbow angle panel (bike-visualization).                             *)
(***************************************************************************)
ELBOW_ANGLE_MIN_WARNING == 140
ELBOW_ANGLE_MAX_WARNING == 160
ELBOW_ANGLE_CRITICAL == 170

(* ElbowClass with the upper warning band open at its lower end.            *)
ElbowClassOpenBand(angle) ==
  LET isRed    == Gt(angle, Dg(ELBOW_ANGLE_CRITICAL))
      isYellow == ~isRed /\ ((Gt(angle, Dg(ELBOW_ANGLE_MAX_WARNING))
                               /\ Le(angle, Dg(ELBOW_ANGLE_CRITICAL)))
                             \/ Lt(angle, Dg(ELBOW_ANGLE_MIN_WARNING)))
  IN  IF isRed THEN "red" ELSE IF isYellow THEN "yellow" ELSE "gray"

(* isRed / isYellow / backgroundColor of an angle in 1/AngScale degrees.    *)
ElbowClass(angle) ==
  LET isRed    == Gt(angle, Dg(ELBOW_ANGLE_CRITICAL))
      isYellow == ~isRed /\ ((Ge(angle, Dg(ELBOW_ANGLE_MAX_WARNING))
                               /\ Le(angle, Dg(ELBOW_ANGLE_CRITICAL)))
                             \/ Lt(angle, Dg(ELBOW_ANGLE_MIN_WARNING)))
  IN  IF isRed THEN "red" ELSE IF isYellow THEN "yellow" ELSE "gray"

(* The angles shown: 130.00 to 180.00 degrees in steps of 1/AngScale.       *)
ElbowSteps == 5000

ElbowSamples == {130 * AngScale + k : k \in 0..ElbowSteps}

InitElbow ==
  /\ elbowShown \in ElbowSamples
  /\ elbowClass = "none"
  /\ isPedaling = FALSE
  /\ ticks = 0
  /\ measureMode = FALSE
  /\ measurePoints = << >>
  /\ lastEvent = Event("none", "", "")
  /\ kneeAt90 = NaN
  /\ ampel = "none"
  /\ bikesData = JsonOfBikes(AVAILABLE_BIKES)
  /\ parsedBikes = parseBikesData(bikesData)
  /\ bikeA = getFirstAvailableBike
  /\ bikeB = NoBike
  /\ thrown = FALSE
  /\ edits = 0
  /\ geometryA = NoGeometry
  /\ geometryB = NoGeometry

ShowElbow ==
  /\ elbowClass = "none"
  /\ elbowClass' = ElbowClass(elbowShown)
  /\ UNCHANGED << bikeA, bikeB, thrown, edits, geometryA, geometryB, kneeAt90, ampel,
                  bikesData, parsedBikes, isPedaling, ticks, elbowShown,
                  measureMode, measurePoints, lastEvent >>

NextElbow == ShowElbow

SpecElbow == InitElbow /\ [][NextElbow]_vars

(***************************************************************************)
(* PROPERTIES                                                              *)
(***************************************************************************)

(* Tolerances, in quanta of the number model: PosTol for coordinates and    *)
(* lengths (1/LenScale units), AngTol for angles (1/AngScale degrees).      *)
PosTol == 5
AngTol == 10

IsRendered(g) == "null" \notin DOMAIN g

(* The engine calls of the last render: << input, result >>.                *)
RenderedPairs ==
  {p \in {<< bikeA, geometryA >>, << bikeB, geometryB >>} : IsRendered(p[2])}

Near(a, b, tol) == IsFiniteNum(a) /\ IsFiniteNum(b) /\ AbsInt(a - b) <= tol

FinitePoint(p) == IsFiniteNum(p.x) /\ IsFiniteNum(p.y)

DistBB(g, id) ==
  Hypot(Sub(g.points[id].x, g.points["bb"].x), Sub(g.points[id].y, g.points["bb"].y))

SegmentsOf(g) == g.segments \o g.riderSegments

(* C1: every `from` and `to` id of the returned segments and rider          *)
(* segments is a key of the returned points, whatever the hand position     *)
(* and the handlebar drop (zero and negative included).                     *)
C1_SegmentEndsArePoints ==
  \A p \in RenderedPairs :
    \A i \in 1..Len(SegmentsOf(p[2])) :
      /\ SegmentsOf(p[2])[i].from \in DOMAIN p[2].points
      /\ SegmentsOf(p[2])[i].to \in DOMAIN p[2].points

(* A result for hands on the drops of a bar without drop: no arc, and the   *)
(* arm ends at the handlebar centre.                                        *)
C1_Witness ==
  /\ IsRendered(geometryA)
  /\ bikeA.cockpit.handlebarDrop = 0
  /\ bikeA.cockpit.handPosition = "drops"
  /\ "handlebarDropEnd" \notin DOMAIN geometryA.points
  /\ geometryA.riderSegments[Len(geometryA.riderSegments)].to = "handlebarCenter"
  /\ Len(geometryA.segments) = Len(FrameSegments)

(* C2: for every finite input, zero rider lengths included, every point     *)
(* coordinate and every metric of the result is a finite number.            *)
C2_EveryResultIsFinite ==
  \A p \in RenderedPairs :
    /\ \A id \in DOMAIN p[2].points : FinitePoint(p[2].points[id])
    /\ \A m \in {"kneeAngle", "kneeAngleAt90", "kneeAngleAt270", "saddleHandlebarDrop",
                 "kneeTopedalXAt0", "shoulderAngle", "elbowAngle"} :
         IsFiniteNum(p[2][m])

(* Values that are both not numbers count as equal.                         *)
SameOrNear(a, b, tol) == IF IsFiniteNum(a) /\ IsFiniteNum(b) THEN AbsInt(a - b) <= tol ELSE a = b

IsDoubledPair ==
  /\ IsRendered(geometryA)
  /\ IsRendered(geometryB)
  /\ bikeB = ScaleLengths(bikeA, 2)

InputPlacedPoints(bike) ==
  {"bb", "headTubeTop", "headTubeBottom", "seatTubeTop", "seatPostTop",
   "pedalRight", "pedalLeft", "cleatTop", "cleatBottom"}
  \cup (IF "frontCenter" \in DOMAIN bike.geometry THEN {"frontWheel"} ELSE {})
  \cup (IF "chainstayLength" \in DOMAIN bike.geometry THEN {"rearWheel"} ELSE {})

LegOf(p) ==
  LET offset == Scaled(Times(Mm(p[1].rider.riderInseam), HIP_JOINT_RATIO, Thousand))
      inseam == AnatomicalInseam(p[1].rider.riderInseam, offset)
  IN  [foot  |-> p[2].points["footContact"],
       hip   |-> p[2].points["hipJoint"],
       knee  |-> p[2].points["kneeNew"],
       lower |-> LowerLeg(inseam),
       upper |-> UpperLeg(inseam),
       dist  |-> Hypot(Sub(p[2].points["hipJoint"].x, p[2].points["footContact"].x),
                       Sub(p[2].points["hipJoint"].y, p[2].points["footContact"].y))]

IsStraightLeg(p) ==
  /\ IsFiniteNum(LegOf(p).dist)
  /\ LegOf(p).dist > 0
  /\ LegOf(p).dist = LegOf(p).lower + LegOf(p).upper

(* k is on the segment from f to h: off the line by at most PosTol, and     *)
(* not beyond either end.                                                   *)
OnSegment(k, f, h, dist) ==
  LET cross == (h.x - f.x) * (k.y - f.y) - (h.y - f.y) * (k.x - f.x)
      dot   == (h.x - f.x) * (k.x - f.x) + (h.y - f.y) * (k.y - f.y)
  IN  /\ FinitePoint(k)
      /\ AbsInt(cross) <= PosTol * dist
      /\ dot >= 0 - PosTol * dist
      /\ dot <= (dist + PosTol) * dist

IsCoincidentLeg(p) ==
  /\ FinitePoint(LegOf(p).foot)
  /\ LegOf(p).hip = LegOf(p).foot

(* C6: when the hip joint and the foot contact point coincide, the knee is  *)
(* a finite point, the midpoint of hip joint and foot.                      *)
C6_CoincidentLegGivesMidpoint ==
  \A p \in RenderedPairs :
    IsCoincidentLeg(p) =>
      /\ FinitePoint(LegOf(p).knee)
      /\ 2 * LegOf(p).knee.x = LegOf(p).hip.x + LegOf(p).foot.x
      /\ 2 * LegOf(p).knee.y = LegOf(p).hip.y + LegOf(p).foot.y
      /\ IsFiniteNum(p[2].kneeAngle)

C6_Witness ==
  /\ IsRendered(geometryA)
  /\ IsCoincidentLeg(<< bikeA, geometryA >>)
  /\ geometryA.points["kneeNew"] = geometryA.points["hipJoint"]
  /\ bikeA.rider.riderInseam > 0

NearPoint(p, q) == Near(p.x, q.x, PosTol) /\ Near(p.y, q.y, PosTol)

Reflected(p, centre) == Pt(2 * centre.x - p.x, 2 * centre.y - p.y)

IsOppositePair ==
  /\ IsRendered(geometryA)
  /\ IsRendered(geometryB)
  /\ bikeB = OppositePedal(bikeA)

(* C7: the right pedal at pedal angle theta is where the left pedal is at   *)
(* theta + 180 degrees, and in every result the left pedal is the right     *)
(* pedal reflected through the bottom bracket.                              *)
C7_PedalSymmetry ==
  /\ IsOppositePair =>
       /\ NearPoint(geometryA.points["pedalRight"], geometryB.points["pedalLeft"])
       /\ NearPoint(geometryA.points["pedalLeft"], geometryB.points["pedalRight"])
  /\ \A p \in RenderedPairs :
       NearPoint(p[2].points["pedalLeft"],
                 Reflected(p[2].points["pedalRight"], p[2].points["bb"]))

(* An opposite pair at an oblique pedal angle.                              *)
C7_Witness ==
  /\ IsOppositePair
  /\ bikeA.cockpit.pedalAngle % 90 # 0
  /\ geometryA.points["pedalRight"].x # 0
  /\ geometryA.points["pedalRight"].y # 0
  /\ geometryA.points["pedalRight"] = geometryB.points["pedalLeft"]

NumbersOfCockpit(bike) == DOMAIN bike.cockpit \ {"handPosition"}

(* C9: no edit through handleCockpitChange fails for want of a limits       *)
(* entry, and every stored numeric cockpit value lies within its field's    *)
(* [min, max].                                                              *)
C9_CockpitEditsAreClamped ==
  /\ ~thrown
  /\ \A slot \in Slots :
       ~IsNull(BikeOf(slot)) =>
         \A f \in NumbersOfCockpit(BikeOf(slot)) :
           /\ f \in DOMAIN COCKPIT_LIMITS
           /\ COCKPIT_LIMITS[f].min <= BikeOf(slot).cockpit[f]
           /\ BikeOf(slot).cockpit[f] <= COCKPIT_LIMITS[f].max

(* C10: the rider values of every bike lie within the bounds of their       *)
(* fields.                                                                  *)
C10_RiderValuesAreBounded ==
  \A slot \in Slots :
    ~IsNull(BikeOf(slot)) =>
      \A f \in RiderFields :
        /\ RIDER_INPUT_BOUNDS[f].min <= BikeOf(slot).rider[f]
        /\ BikeOf(slot).rider[f] <= RIDER_INPUT_BOUNDS[f].max

IsDefaultedPair ==
  /\ IsRendered(geometryA)
  /\ IsRendered(geometryB)
  /\ bikeB = FilledDefaults(bikeA)
  /\ bikeB # bikeA

(* C11: for a geometry without frontCenter, chainstayLength or              *)
(* headTubeLength the engine returns exactly the result it returns for the  *)
(* same input with frontCenter = 600, chainstayLength = 410 and             *)
(* headTubeLength = 0 supplied.                                             *)
C11_MissingFieldsAreDefaulted ==
  IsDefaultedPair =>
    /\ bikeB.geometry.frontCenter = 600
    /\ bikeB.geometry.chainstayLength = 410
    /\ bikeB.geometry.headTubeLength = 0
    /\ geometryA = geometryB

(* A geometry without the three fields has been rendered next to its        *)
(* filled twin, with a finite front wheel in front of the bottom bracket.   *)
C11_Witness ==
  /\ IsDefaultedPair
  /\ DOMAIN bikeA.geometry \cap {"frontCenter", "chainstayLength", "headTubeLength"} = {}
  /\ IsFiniteNum(geometryA.points["frontWheel"].x)
  /\ geometryA.points["frontWheel"].x > 0
  /\ geometryA.points["headTubeBottom"] = geometryA.points["headTubeTop"]

(* A length of n drawing units, in quanta of the number model.              *)
Units(n) == n * LenScale

(* C12: for stack = 560, reach = 390 and bbDrop = 70 the result has         *)
(* bb = (0, 0), headTubeTop = (312, -448) and both wheels at y = -56.       *)
C12_FrameExample ==
  \A p \in RenderedPairs :
    (p[1].geometry.stack = 560 /\ p[1].geometry.reach = 390 /\ p[1].geometry.bbDrop = 70) =>
      /\ p[2].points["bb"] = Pt(0, 0)
      /\ p[2].points["headTubeTop"] = Pt(Units(312), 0 - Units(448))
      /\ p[2].points["rearWheel"].y = 0 - Units(56)
      /\ p[2].points["frontWheel"].y = 0 - Units(56)

C12_Witness ==
  /\ IsRendered(geometryA)
  /\ bikeA.geometry.stack = 560 /\ bikeA.geometry.reach = 390 /\ bikeA.geometry.bbDrop = 70
  /\ geometryA.points["headTubeTop"].x = Units(312)
  /\ geometryA.points["rearWheel"].y = 0 - Units(56)

IsChainstayExample(p) ==
  /\ OrDefault(p[1].geometry, "chainstayLength", DEFAULT_CHAINSTAY_LENGTH) = 410
  /\ p[1].geometry.bbDrop = 70

(* C13 as claimed: for chainstayLength = 410 and bbDrop = 70 the rear wheel *)
(* x coordinate is within 0.1 of -326.5.                                    *)
C13_RearWheelNear326 ==
  \A p \in RenderedPairs :
    IsChainstayExample(p) =>
      Near(p[2].points["rearWheel"].x, 0 - 3265, LenScale \div 10)

(* C13 amended: for chainstayLength = 410 and bbDrop = 70 the rear wheel x  *)
(* coordinate is -sqrt(410^2 * 0.64 - 56^2), which is within 0.1 of -323.2. *)
C13_RearWheelNear323 ==
  \A p \in RenderedPairs :
    IsChainstayExample(p) =>
      /\ Near(p[2].points["rearWheel"].x,
              Neg(MathSqrt(((Units(410) * Units(410) * 64) \div 100) - Units(56) * Units(56))), 0)
      /\ Near(p[2].points["rearWheel"].x, 0 - 3232, LenScale \div 10)

C13_Witness ==
  /\ IsRendered(geometryA)
  /\ IsChainstayExample(<< bikeA, geometryA >>)
  /\ geometryA.points["rearWheel"].x = 0 - 3232
  /\ geometryA.points["rearWheel"].y = 0 - Units(56)

IsLoaded == parsedBikes # NotLoaded

(* The geometries of a brand / model / size structure, or {JNull} when d    *)
(* is not such a structure.                                                 *)
GeometriesOf(d) ==
  IF /\ d.t = "object"
     /\ \A b \in DOMAIN d.v :
          /\ d.v[b].t = "object"
          /\ \A m \in DOMAIN d.v[b].v : d.v[b].v[m].t = "object"
  THEN UNION {UNION {{d.v[b].v[m].v[sz] : sz \in DOMAIN d.v[b].v[m].v} :
                       m \in DOMAIN d.v[b].v} : b \in DOMAIN d.v}
  ELSE {JNull}

IsNumberIn(g, k) == k \in DOMAIN g.v /\ g.v[k].t = "number"

IsValidBikes(d) ==
  \A g \in GeometriesOf(d) :
    /\ g.t = "object"
    /\ \A k \in {"stack", "reach", "headTubeAngle", "seatTubeAngle", "forkLength",
                 "bbDrop", "headTubeLength", "seatTubeLength"} : IsNumberIn(g, k)
    /\ \A k \in {"chainstayLength", "frontCenter"} : k \in DOMAIN g.v => IsNumberIn(g, k)

KnownFieldsOf(d) ==
  JObject([b \in DOMAIN d.v |->
    JObject([m \in DOMAIN d.v[b].v |->
      JObject([sz \in DOMAIN d.v[b].v[m].v |->
        JObject([k \in {f \in DOMAIN d.v[b].v[m].v[sz].v :
                          f \in {"stack", "reach", "headTubeAngle", "seatTubeAngle",
                                  "forkLength", "bbDrop", "headTubeLength",
                                  "seatTubeLength", "chainstayLength", "frontCenter"}} |->
                   d.v[b].v[m].v[sz].v[k]])])])])

C14_WitnessInvalidEntry ==
  /\ IsLoaded
  /\ DOMAIN bikesData = {"t", "v"}
  /\ bikesData.t = "object"
  /\ DOMAIN bikesData.v = {"Cannondale", "Canyon"}
  /\ ~IsValidBikes(bikesData)
  /\ parsedBikes = EmptyObject

Distance(p, q) == Hypot(Sub(q.x, p.x), Sub(q.y, p.y))

IsReachableLeg(p) ==
  /\ IsFiniteNum(LegOf(p).dist)
  /\ LegOf(p).dist > 0
  /\ AbsInt(LegOf(p).lower - LegOf(p).upper) <= LegOf(p).dist
  /\ LegOf(p).dist <= LegOf(p).lower + LegOf(p).upper

(* C15: whenever the hip joint is within reach of the foot contact point    *)
(* (|lowerLeg - upperLeg| <= distance <= lowerLeg + upperLeg, distance > 0) *)
(* kneeNew is at distance lowerLeg from footContact and at distance         *)
(* upperLeg from hipJoint.                                                  *)
C15_KneeIsOnBothCircles ==
  \A p \in RenderedPairs :
    IsReachableLeg(p) =>
      /\ Near(Distance(LegOf(p).foot, LegOf(p).knee), LegOf(p).lower, PosTol)
      /\ Near(Distance(LegOf(p).hip, LegOf(p).knee), LegOf(p).upper, PosTol)

(* A bent leg: the hip joint well inside the reach of the foot.             *)
C15_Witness ==
  /\ IsRendered(geometryA)
  /\ IsReachableLeg(<< bikeA, geometryA >>)
  /\ 10 * LegOf(<< bikeA, geometryA >>).dist
       < 9 * (LegOf(<< bikeA, geometryA >>).lower + LegOf(<< bikeA, geometryA >>).upper)
  /\ Near(Distance(geometryA.points["hipJoint"], geometryA.points["kneeNew"]),
          LegOf(<< bikeA, geometryA >>).upper, PosTol)

(* The arm of a rendered call: shoulder, hand point, elbow and the two arm  *)
(* lengths, 18.6% and 14.6% of the rider height.                            *)
ArmOf(p) ==
  [shoulder |-> p[2].points["shoulder"],
   hand     |-> p[2].points[HandPointId(p[1].cockpit, p[2].points)],
   elbow    |-> p[2].points["elbow"],
   upper    |-> Scaled(Times(Mm(p[1].rider.riderHeight), 186, Thousand)),
   lower    |-> Scaled(Times(Mm(p[1].rider.riderHeight), 146, Thousand)),
   dist     |-> Distance(p[2].points["shoulder"],
                         p[2].points[HandPointId(p[1].cockpit, p[2].points)])]

(* The point at fraction n / d of the way from p to q.                      *)
Along(p, q, n, d) ==
  Pt(Add(p.x, Div(Mul(Sub(q.x, p.x), n, 1), d, 1)),
     Add(p.y, Div(Mul(Sub(q.y, p.y), n, 1), d, 1)))

ArmCaseHolds(arm) ==
  IF arm.dist > arm.upper + arm.lower
  THEN /\ FinitePoint(arm.elbow)
       /\ NearPoint(arm.elbow,
                    Along(arm.shoulder, arm.hand, arm.upper, arm.upper + arm.lower))
  ELSE IF arm.dist < AbsInt(arm.upper - arm.lower)
  THEN /\ 2 * arm.elbow.x = arm.shoulder.x + arm.hand.x
       /\ 2 * arm.elbow.y = arm.shoulder.y + arm.hand.y
  ELSE /\ Near(Distance(arm.shoulder, arm.elbow), arm.upper, PosTol)
       /\ Near(Distance(arm.hand, arm.elbow), arm.lower, PosTol)

(* C16: the elbow is on the shoulder-hand line at upperArm / (upperArm +    *)
(* lowerArm) from the shoulder when the hand is out of reach, else the      *)
(* midpoint of shoulder and hand when the hand is too close, otherwise at   *)
(* distance upperArm from the shoulder and lowerArm from the hand, with     *)
(* upperArm 18.6% and lowerArm 14.6% of the rider height.                   *)
C16_ElbowFollowsThreeCases ==
  \A p \in RenderedPairs :
    (FinitePoint(ArmOf(p).shoulder) /\ FinitePoint(ArmOf(p).hand)) =>
      ArmCaseHolds(ArmOf(p))

(* The same for riders of a height above 0.                                 *)
ElbowFollowsThreeCasesOfTallRider ==
  \A p \in RenderedPairs :
    (FinitePoint(ArmOf(p).shoulder) /\ FinitePoint(ArmOf(p).hand)
     /\ p[1].rider.riderHeight > 0) =>
      ArmCaseHolds(ArmOf(p))

(* The stretch of a rendered call: the distance from the right pedal to     *)
(* the saddle over the leg length, in 1/T.                                  *)
StretchOf(p) ==
  Stretch(p[2].points["pedalRight"], p[2].points["saddleTop"], p[1].rider.riderInseam)

KneeAtCurrentAngle(p) ==
  /\ p[1].cockpit.pedalAngle = 90 => p[2].kneeAngle = p[2].kneeAngleAt90
  /\ p[1].cockpit.pedalAngle = 270 => p[2].kneeAngle = p[2].kneeAngleAt270

DifferOnlyInPedalAngle ==
  /\ IsRendered(geometryA)
  /\ IsRendered(geometryB)
  /\ bikeA.cockpit.pedalAngle # bikeB.cockpit.pedalAngle
  /\ bikeB = [bikeA EXCEPT !.cockpit.pedalAngle = bikeB.cockpit.pedalAngle]

(* C18: for two inputs that differ only in cockpit.pedalAngle the metrics   *)
(* kneeAngleAt90, kneeAngleAt270, kneeTopedalXAt0, saddleHandlebarDrop,     *)
(* shoulderAngle and elbowAngle are equal, so they stay constant over the   *)
(* steps of the pedal animation.                                            *)
C18_MetricsIgnorePedalAngle ==
  DifferOnlyInPedalAngle =>
    \A m \in {"kneeAngleAt90", "kneeAngleAt270", "kneeTopedalXAt0",
               "saddleHandlebarDrop", "shoulderAngle", "elbowAngle"} :
      geometryA[m] = geometryB[m]

(* One tick of the animation has moved the knee and left finite metrics.    *)
C18_Witness ==
  /\ DifferOnlyInPedalAngle
  /\ bikeB = PedalTick(bikeA)
  /\ \A m \in {"kneeAngle", "kneeAngleAt90", "kneeAngleAt270", "kneeTopedalXAt0",
               "saddleHandlebarDrop", "shoulderAngle", "elbowAngle"} :
       IsFiniteNum(geometryA[m])
  /\ geometryA.kneeAngle # geometryB.kneeAngle
  /\ geometryA.kneeAngleAt90 = geometryB.kneeAngleAt90

(* The bike whose geometry g is has a finite right pedal axle.              *)
HasPedal(g) ==
  /\ IsRendered(g)
  /\ IsFiniteNum(g.points["pedalRight"].x)
  /\ IsFiniteNum(g.points["pedalRight"].y)

FlatBar(bike) == [bike EXCEPT !.cockpit.handlebarDrop = 0]

(* |handlebarDrop * SCALE| >= 0.001, handlebarDrop in whole mm.             *)
DropIsDrawn(bike) ==
  (IF bike.cockpit.handlebarDrop < 0 THEN 0 - bike.cockpit.handlebarDrop
   ELSE bike.cockpit.handlebarDrop) * SCALE * ARC_MIN_DROP_INV >= 10

(* The points g has and the result for the flat bar has not, the alias      *)
(* handlebarDropEnd of the last arc point aside.                            *)
ArcPointsOf(bike, g) ==
  (DOMAIN g.points \ DOMAIN calculateBikeGeometry(FlatBar(bike)).points)
    \ {"handlebarDropEnd"}

(* The segments of g that touch one of the points in ids, in their order.   *)
SegmentsAt(g, ids) ==
  SelectSeq(g.segments, LAMBDA sg : sg.from \in ids \/ sg.to \in ids)

(* g has n arc points, handlebarArc0 .. handlebarArc(n-1), one segment from *)
(* handlebarCenter to the first and one between each consecutive pair.      *)
HasArcOf(bike, g, n) ==
  /\ ArcPointsOf(bike, g) = {ArcId(i) : i \in 0..(n - 1)}
  /\ SegmentsAt(g, ArcPointsOf(bike, g)) =
       << Seg("handlebarCenter", ArcId(0)) >>
       \o [i \in 1..(n - 1) |-> Seg(ArcId(i - 1), ArcId(i))]

(* g has no arc point and no segment besides those of the frame.            *)
HasNoArc(g) ==
  /\ \A i \in 0..HANDLEBAR_ARC_STEPS : ArcId(i) \notin DOMAIN g.points
  /\ "handlebarDropEnd" \notin DOMAIN g.points
  /\ g.segments = FrameSegments

(* C20: when |handlebarDrop| exceeds the threshold the engine adds exactly  *)
(* 12 arc points, one segment from handlebarCenter to the first arc point   *)
(* and one segment between each pair of consecutive arc points; below the   *)
(* threshold it adds no arc point and no arc segment.                       *)
C20_TwelveArcPoints ==
  IsRendered(geometryA) =>
    IF DropIsDrawn(bikeA) THEN HasArcOf(bikeA, geometryA, HANDLEBAR_ARC_STEPS)
    ELSE HasNoArc(geometryA)

(* C20 as the code has it: HANDLEBAR_ARC_STEPS + 1 = 13 arc points,         *)
(* handlebarArc0 .. handlebarArc12, joined by 1 + 12 segments.              *)
C20_ThirteenArcPoints ==
  IsRendered(geometryA) =>
    IF DropIsDrawn(bikeA) THEN HasArcOf(bikeA, geometryA, HANDLEBAR_ARC_STEPS + 1)
    ELSE HasNoArc(geometryA)

(* A bar with a drop: thirteen arc points and thirteen arc segments.        *)
C20_Witness ==
  /\ IsRendered(geometryA)
  /\ DropIsDrawn(bikeA)
  /\ Cardinality(ArcPointsOf(bikeA, geometryA)) = 13
  /\ Len(geometryA.segments) = Len(FrameSegments) + 13

(* The hand point of bike as stated: the end of the arc for hands on the    *)
(* drops of a bar whose arc is drawn, the handlebar centre otherwise.       *)
StatedHandId(bike) ==
  IF bike.cockpit.handPosition = "drops" /\ DropIsDrawn(bike)
  THEN "handlebarDropEnd"
  ELSE "handlebarCenter"

(* C21: the hand point is the last handlebar-arc point (handlebarDropEnd)   *)
(* iff handPosition is 'drops' and the arc was generated, handlebarCenter   *)
(* otherwise; the arm IK target, the elbow angle and the end of the last    *)
(* rider segment (elbow -> hand) all use this point.                        *)
C21_OneHandPoint ==
  \A p \in RenderedPairs :
    /\ ("handlebarDropEnd" \in DOMAIN p[2].points) <=> DropIsDrawn(p[1])
    /\ DropIsDrawn(p[1]) =>
         p[2].points["handlebarDropEnd"] = p[2].points[ArcId(HANDLEBAR_ARC_STEPS)]
    /\ p[2].riderSegments[Len(p[2].riderSegments)] = Seg("elbow", StatedHandId(p[1]))
    /\ p[2].points["elbow"] =
         SolveJoint(p[2].points["shoulder"], p[2].points[StatedHandId(p[1])],
                    ArmOf(p).upper, ArmOf(p).lower)
    /\ p[2].elbowAngle =
         JointAngle(p[2].points["elbow"], p[2].points["shoulder"],
                    p[2].points[StatedHandId(p[1])])

(* Hands on the drops of a bar with a drop: the arm ends at the arc's end,  *)
(* away from the handlebar centre.                                          *)
C21_Witness ==
  /\ IsRendered(geometryA)
  /\ bikeA.cockpit.handPosition = "drops"
  /\ DropIsDrawn(bikeA)
  /\ geometryA.riderSegments[Len(geometryA.riderSegments)].to = "handlebarDropEnd"
  /\ geometryA.points["handlebarDropEnd"] # geometryA.points["handlebarCenter"]
  /\ IsFiniteNum(geometryA.elbowAngle)
  /\ geometryA.elbowAngle #
       JointAngle(geometryA.points["elbow"], geometryA.points["shoulder"],
                  geometryA.points["handlebarCenter"])

(* The wheel centre `wheel` of a frame with bottom bracket drop bbDrop,     *)
(* declared `declared` mm from the bottom bracket: at the declared distance *)
(* when that is at least |bbDrop|, straight above or below the bottom       *)
(* bracket when it is shorter.                                              *)
WheelIsPlaced(g, wheel, declared, bbDrop) ==
  /\ FinitePoint(g.points[wheel])
  /\ g.points[wheel].y = Neg(Scaled(Mm(bbDrop)))
  /\ IF declared >= AbsInt(bbDrop)
     THEN Near(Distance(g.points["bb"], g.points[wheel]), Scaled(Mm(declared)), PosTol)
     ELSE g.points[wheel].x = 0

(* C22: both wheel centres have y = -bbDrop * SCALE, frontWheel.x >= 0 and  *)
(* rearWheel.x <= 0; a wheel whose declared distance (frontCenter,          *)
(* chainstayLength) is at least |bbDrop| lies that distance from the bottom *)
(* bracket, and one whose distance is shorter has x = 0 and no NaN.         *)
C22_WheelsAreGuarded ==
  \A p \in RenderedPairs :
    /\ WheelIsPlaced(p[2], "frontWheel",
                     OrDefault(p[1].geometry, "frontCenter", DEFAULT_FRONT_CENTER),
                     p[1].geometry.bbDrop)
    /\ WheelIsPlaced(p[2], "rearWheel",
                     OrDefault(p[1].geometry, "chainstayLength", DEFAULT_CHAINSTAY_LENGTH),
                     p[1].geometry.bbDrop)
    /\ p[2].points["frontWheel"].x >= 0
    /\ p[2].points["rearWheel"].x <= 0

(* A front centre shorter than the drop: the front wheel is straight above  *)
(* the bottom bracket, the rear wheel of the same frame behind it.          *)
C22_Witness ==
  /\ IsRendered(geometryA)
  /\ OrDefault(bikeA.geometry, "frontCenter", DEFAULT_FRONT_CENTER) < bikeA.geometry.bbDrop
  /\ geometryA.points["frontWheel"] = Pt(0, Neg(Scaled(Mm(bikeA.geometry.bbDrop))))
  /\ geometryA.points["rearWheel"].x < 0
  /\ IsFiniteNum(geometryA.points["rearWheel"].x)

AngleMetrics == {"kneeAngle", "kneeAngleAt90", "kneeAngleAt270", "shoulderAngle", "elbowAngle"}

(* C23: every returned angle metric (kneeAngle, kneeAngleAt90,              *)
(* kneeAngleAt270, shoulderAngle, elbowAngle) lies in [0, 180] degrees for  *)
(* every input for which it is a number.                                    *)
C23_AnglesWithinHalfTurn ==
  \A p \in RenderedPairs :
    \A m \in AngleMetrics :
      p[2][m] # NaN => (0 <= p[2][m] /\ p[2][m] <= 180 * AngScale)

(* A knee whose two directions are more than 180 degrees apart: the angle   *)
(* returned is 360 degrees minus that difference.                           *)
C23_Witness ==
  /\ IsRendered(geometryA)
  /\ \A m \in AngleMetrics : IsFiniteNum(geometryA[m])
  /\ JointAngleUnreflected(geometryA.points["kneeNew"], geometryA.points["footContact"],
                           geometryA.points["hipJoint"]) > 180 * AngScale
  /\ geometryA.kneeAngle =
       360 * AngScale
       - JointAngleUnreflected(geometryA.points["kneeNew"], geometryA.points["footContact"],
                               geometryA.points["hipJoint"])

(* KNEE_PEDAL_X_MIN_WARNING and the condition of the yellow knee-to-pedal   *)
(* notice of BikeVisualization: distance < KNEE_PEDAL_X_MIN_WARNING.        *)
KNEE_PEDAL_X_MIN_WARNING == 0

KneePedalWarning(distance) == Lt(distance, Mm(KNEE_PEDAL_X_MIN_WARNING))

(* The pedal axle and the knee of a rendered call with the crank at 0       *)
(* degrees, pointing forward.                                               *)
PedalAt0(p) ==
  Polar(p[2].points["bb"], Scaled(Mm(p[1].cockpit.crankLength)), toRadians(0))

KneeAt0(p) ==
  SolveJoint(FootBelow(PedalAt0(p), Scaled(Mm(p[1].rider.shoeThickness)),
                       toRadians(BaseDynamicFootAngle(toRadians(0)))),
             p[2].points["hipJoint"], NewLowerLeg(p[1].rider), NewUpperLeg(p[1].rider))

C26_SaddleFollowsCockpit ==
  \A p \in RenderedPairs :
    FinitePoint(p[2].points["seatPostTop"]) =>
      /\ p[2].points["saddleTop"] =
           Pt(Sub(p[2].points["seatPostTop"].x,
                  Scaled(Mm(OrDefault(p[1].cockpit, "saddleSetback", SADDLE_SETBACK)))),
              p[2].points["seatPostTop"].y)
      /\ Sub(p[2].points["saddleLenFwd"].x, p[2].points["saddleLenAft"].x) =
           Scaled(Mm(OrDefault(p[1].cockpit, "saddleLength", SADDLE_LENGTH)))

(* Each bike's pedal angle is within 0 .. 360.                              *)
PedalInRange ==
  \A bike \in {bikeA, bikeB} :
    ~IsNull(bike) => (0 <= bike.cockpit.pedalAngle /\ bike.cockpit.pedalAngle <= 360)

(* The pedal angle after a tick, as stated: (previous + 1) mod 360.         *)
Ticked(bike) ==
  IF IsNull(bike) THEN bike
  ELSE [bike EXCEPT !.cockpit.pedalAngle =
          IF bike.cockpit.pedalAngle + 1 >= 360 THEN bike.cockpit.pedalAngle + 1 - 360
          ELSE bike.cockpit.pedalAngle + 1]

(* C27: a timer tick happens only while isPedaling is true; it sets the     *)
(* pedalAngle of Bike A, and of Bike B when present, to (previous + 1) mod  *)
(* 360 and changes nothing else; and 0 <= pedalAngle <= 360 in every state  *)
(* under any interleaving of ticks and user edits.                          *)
C27_PedalAnimation ==
  /\ [][ticks' # ticks =>
          /\ isPedaling /\ isPedaling'
          /\ bikeA' = Ticked(bikeA)
          /\ bikeB' = Ticked(bikeB)
          /\ UNCHANGED << thrown, edits >>]_vars
  /\ []PedalInRange

(* After an edit of Bike A to 360 degrees and the choice of a Bike B, one   *)
(* tick has taken A to 1 and B from 0 to 1, and the animation is off again. *)
C27_Witness ==
  /\ ticks = 1
  /\ ~isPedaling
  /\ bikeA.cockpit.pedalAngle = 1
  /\ ~IsNull(bikeB)
  /\ bikeB.cockpit.pedalAngle = 1
  /\ edits = 2

(* bike is the catalog's entry for its brand, model and size.               *)
InCatalog(bike, catalog) ==
  /\ HasPath(catalog, bike.brand, bike.model, bike.size)
  /\ bike.geometry = GeometryOfJson(catalog.v[bike.brand].v[bike.model].v[bike.size])

(* C28: in every state of the page, the initial state built from an empty   *)
(* or invalid catalog included, each non-null bike has a brand that is a    *)
(* key of the catalog, a model that is a key of catalog[brand], a size that *)
(* is a key of catalog[brand][model], and the geometry stored there.        *)
C28_BikesAreCatalogEntries ==
  IsLoaded =>
    \A bike \in {bikeA, bikeB} : ~IsNull(bike) => InCatalog(bike, parsedBikes)

(* At most two points are selected and none twice.                          *)
MeasureSelectionIsSmall ==
  /\ Len(measurePoints) <= 2
  /\ \A i, j \in 1..Len(measurePoints) : measurePoints[i] = measurePoints[j] => i = j

(* The selection after the click lastEvent' as stated: a toggle empties     *)
(* it; a point click changes nothing while measure mode is off, removes a   *)
(* selected point, replaces two selected points by the new one, and adds    *)
(* the point otherwise.                                                     *)
MeasureStepAsStated ==
  LET click == lastEvent'
      point == [id |-> click.id, bike |-> click.bike]
      held  == {measurePoints[i] : i \in 1..Len(measurePoints)}
  IN  /\ click.kind = "toggle" =>
           measureMode' = ~measureMode /\ measurePoints' = << >>
      /\ click.kind = "point" =>
           /\ measureMode' = measureMode
           /\ ~measureMode => measurePoints' = measurePoints
           /\ (measureMode /\ point \in held) =>
                /\ Len(measurePoints') = Len(measurePoints) - 1
                /\ {measurePoints'[i] : i \in 1..Len(measurePoints')} = held \ {point}
           /\ (measureMode /\ point \notin held /\ Len(measurePoints) = 2) =>
                measurePoints' = << point >>
           /\ (measureMode /\ point \notin held /\ Len(measurePoints) < 2) =>
                measurePoints' = Append(measurePoints, point)

(* C29: after any sequence of point clicks, background clicks and           *)
(* measure-mode toggles measurePoints holds at most 2 entries and no        *)
(* (point id, bike) pair twice; clicking a selected point removes it, a new *)
(* point when 2 are selected replaces the selection, toggling measure mode  *)
(* empties the selection, and a point click while the mode is off changes   *)
(* nothing.                                                                 *)
C29_MeasureTool ==
  /\ []MeasureSelectionIsSmall
  /\ [][MeasureStepAsStated]_vars

(* Two points are selected, one of each bike, the second by the last click. *)
C29_Witness ==
  /\ measureMode
  /\ Len(measurePoints) = 2
  /\ measurePoints[1].bike # measurePoints[2].bike
  /\ lastEvent = Event("point", measurePoints[2].id, measurePoints[2].bike)

(* The foot contact point of a rendered call with the crank at 90 degrees.  *)
FootAt90(p) ==
  FootBelow(Polar(p[2].points["bb"], Scaled(Mm(p[1].cockpit.crankLength)),
                  toRadians(Dg(90))),
            Scaled(Mm(p[1].rider.shoeThickness)),
            toRadians(BaseDynamicFootAngle(toRadians(Dg(90)))))

(* At crank 90 degrees the hip joint is further from the foot than the two  *)
(* leg segments reach.                                                      *)
IsOverStretchedAt90(p) ==
  /\ FinitePoint(p[2].points["hipJoint"])
  /\ FinitePoint(FootAt90(p))
  /\ IsFiniteNum(LegOf(p).lower + LegOf(p).upper)
  /\ Distance(FootAt90(p), p[2].points["hipJoint"]) > LegOf(p).lower + LegOf(p).upper

(* C30: when, at crank 90 degrees, the distance from the hip joint to the   *)
(* foot contact point exceeds lowerLeg + upperLeg, kneeAngleAt90 is exactly *)
(* 180 degrees, so the 'saddle too high / leg too short' notice, shown iff  *)
(* kneeAngleAt90 >= 180, appears.                                           *)
C30_OverStretchedIs180 ==
  \A p \in RenderedPairs :
    IsOverStretchedAt90(p) => p[2].kneeAngleAt90 = 180 * AngScale

=============================================================================
